---- MODULE Spec2Model ----
(***************************************************************************)
(* Model of the chunking + vector-index + retrieval engine of monkeyagent: *)
(*   backend/app/services/document_loader.py  (DocumentLoader.chunk_text)  *)
(*   backend/app/services/indexer.py          (DocumentIndexer)            *)
(*   backend/app/api/v1/document.py           (request handlers)           *)
(*                                                                         *)
(* Python strings are TLA+ strings; a FAISS IndexFlatIP is a record        *)
(* [none, d, xb] (xb: the stored vectors, id i at position i+1); the       *)
(* metadata dict is a function from vector ids to records.  Python's None  *)
(* for self.dimension is the number 0 (get_index_stats reads it through    *)
(* "self.dimension or 0").                                                 *)
(***************************************************************************)
EXTENDS Integers, Sequences, FiniteSets, TLC

(***************************************************************************)
(* Program constants (backend/app/core/config.py).                         *)
(***************************************************************************)
MAX_CHUNK_SIZE == 512
CHUNK_OVERLAP == 50

(***************************************************************************)
(* Generic helpers.                                                        *)
(***************************************************************************)
SetMin(S) == CHOOSE x \in S : \A y \in S : x <= y
SetMax(S) == CHOOSE x \in S : \A y \in S : x >= y
Min2(a, b) == IF a <= b THEN a ELSE b
Max2(a, b) == IF a >= b THEN a ELSE b

RECURSIVE SumLen(_)
SumLen(ss) == IF ss = <<>> THEN 0 ELSE Len(Head(ss)) + SumLen(Tail(ss))

(***************************************************************************)
(* Python string primitives used by chunk_text.                            *)
(***************************************************************************)
CharAt(s, i) == SubSeq(s, i, i)
Whitespace == {" ", "\n", "\t", "\r"}

\* str.strip(): drop leading and trailing whitespace
Strip(s) ==
    LET keep == {i \in 1..Len(s) : CharAt(s, i) \notin Whitespace}
    IN  IF keep = {} THEN "" ELSE SubSeq(s, SetMin(keep), SetMax(keep))

\* str.split('.'): the pieces between consecutive dots, empty pieces included
SplitDot(s) ==
    LET dots == {i \in 1..Len(s) : CharAt(s, i) = "."}
        cuts == {0} \cup dots \cup {Len(s) + 1}
        NextCut(c) == SetMin({x \in cuts : x > c})
        RECURSIVE Pieces(_)
        Pieces(c) == <<SubSeq(s, c + 1, NextCut(c) - 1)>>
                       \o (IF NextCut(c) = Len(s) + 1 THEN <<>> ELSE Pieces(NextCut(c)))
    IN  Pieces(0)

\* '. '.join(parts) + '.'
RECURSIVE JoinDot(_)
JoinDot(parts) ==
    IF Len(parts) = 1 THEN Head(parts) \o "."
    ELSE Head(parts) \o ". " \o JoinDot(Tail(parts))

\* lst[:n] for n > 0
LastN_First(lst, n) == IF n >= Len(lst) THEN lst ELSE SubSeq(lst, 1, n)

\* lst[-n:] for n > 0
LastN(lst, n) == IF n >= Len(lst) THEN lst ELSE SubSeq(lst, Len(lst) - n + 1, Len(lst))

(***************************************************************************)
(* DocumentLoader.chunk_text.  A chunk_size / overlap of 0 stands for both *)
(* Python's None and 0: "x or default" replaces either by the setting.     *)
(***************************************************************************)
RECURSIVE ChunkLoop(_, _, _, _, _, _)
ChunkLoop(sentences, chunks, current_chunk, current_length, chunk_size, overlap) ==
    IF sentences = <<>>
    THEN IF current_chunk # <<>> THEN Append(chunks, JoinDot(current_chunk)) ELSE chunks
    ELSE LET sentence == Strip(Head(sentences))
             rest == Tail(sentences)
             sentence_length == Len(sentence)
         IN  IF sentence = ""
             THEN ChunkLoop(rest, chunks, current_chunk, current_length, chunk_size, overlap)
             ELSE IF current_length + sentence_length > chunk_size /\ current_chunk # <<>>
                  THEN LET closed == Append(chunks, JoinDot(current_chunk))
                       IN  IF overlap > 0 /\ Len(current_chunk) > 1
                           THEN LET seeded == LastN(current_chunk, overlap) \o <<sentence>>
                                IN  ChunkLoop(rest, closed, seeded, SumLen(seeded),
                                              chunk_size, overlap)
                           ELSE ChunkLoop(rest, closed, <<sentence>>, sentence_length,
                                          chunk_size, overlap)
                  ELSE ChunkLoop(rest, chunks, Append(current_chunk, sentence),
                                 current_length + sentence_length, chunk_size, overlap)

\* a splitter that cuts every sentence down to the size limit
chunk_text_Truncating(text, chunk_size, overlap) ==
    LET size == IF chunk_size # 0 THEN chunk_size ELSE MAX_CHUNK_SIZE
        ov == IF overlap # 0 THEN overlap ELSE CHUNK_OVERLAP
        pieces == SplitDot(text)
        cut == [i \in 1..Len(pieces) |-> SubSeq(Strip(pieces[i]), 1, Min2(size, Len(Strip(pieces[i]))))]
    IN  ChunkLoop(cut, <<>>, <<>>, 0, size, ov)

chunk_text(text, chunk_size, overlap) ==
    LET size == IF chunk_size # 0 THEN chunk_size ELSE MAX_CHUNK_SIZE
        ov == IF overlap # 0 THEN overlap ELSE CHUNK_OVERLAP
    IN  ChunkLoop(SplitDot(text), <<>>, <<>>, 0, size, ov)

(***************************************************************************)
(* Bounds of the model.                                                    *)
(***************************************************************************)
MaxVectors == 3      \* an add is taken only while the index stays within this size
MaxTopK == 2         \* top_k of a search ranges over 1..MaxTopK
MaxFaults == 1       \* calls in which the embedding model or a file write fails

(***************************************************************************)
(* Inputs.  Document texts are chosen so that, under MAX_CHUNK_SIZE, they  *)
(* split into 0, 1, 2 and 3 fragments.                                     *)
(***************************************************************************)
RECURSIVE Rep(_, _)
Rep(c, n) == IF n = 0 THEN ""
             ELSE IF n % 2 = 0 THEN LET h == Rep(c, n \div 2) IN h \o h
             ELSE c \o Rep(c, n - 1)

SentA == Rep("a", 300)
SentB == Rep("b", 300)
SentC == Rep("c", 300)

TextNone == " . ."
TextOne == "A. B. C."
TextTwo == SentA \o ". " \o SentB \o "."
TextThree == SentA \o "." \o SentB \o ".\n" \o SentC

DocIds == {1, 2}
Texts == {TextNone, TextOne, TextTwo, TextThree}
Titles == {"t1"}
Queries == {"A. B. C.", SentB \o "."}

\* inputs of the calls on the VectorSearchEngine: a third document, and
\* a one-fragment text whose embedding differs from that of TextOne
TextB == "b."
EngineDocIds == {1, 2, 3}
EngineTexts == {TextOne, TextB, TextTwo, TextThree}
EngineQueries == {"A. B. C.", "c."}

PyNone == -1         \* Python's None where an int is expected (ids are >= 0)

(***************************************************************************)
(* EmbeddingProvider (model.encode behind _create_embeddings).  The model  *)
(* is external; it is represented by one deterministic function per model  *)
(* name, giving vectors of squared norm 25 (unit vectors, scaled by 5) so  *)
(* that inner products stay integers: score 1.0 is the number 25.  "m1"    *)
(* and "m3" have the same dimension and embed a text differently; "m2" has *)
(* another dimension.                                                      *)
(***************************************************************************)
Models == {"m1", "m2", "m3"}
ModelDim(m) == IF m = "m2" THEN 3 ELSE 2

TextCode(text) ==
    IF text = "" THEN 0
    ELSE LET c == CharAt(text, 1)
         IN  IF c = "A" THEN 0 ELSE IF c = "a" THEN 1 ELSE IF c = "b" THEN 2
             ELSE IF c = "c" THEN 3 ELSE Len(text) % 4

EmbedText(m, text) ==
    LET k == TextCode(text)
        v2 == IF k = 0 THEN <<5, 0>> ELSE IF k = 1 THEN <<4, 3>>
              ELSE IF k = 2 THEN <<3, 4>> ELSE <<0, 5>>
    IN  IF m = "m1" THEN v2
        ELSE IF m = "m2" THEN <<0>> \o v2
        ELSE <<v2[2], v2[1]>>

\* _create_embeddings(texts): one row per text, in order
create_embeddings(m, texts) == [i \in 1..Len(texts) |-> EmbedText(m, texts[i])]

RECURSIVE Dot(_, _)
Dot(u, v) == IF u = <<>> THEN 0 ELSE Head(u) * Head(v) + Dot(Tail(u), Tail(v))

(***************************************************************************)
(* FAISS IndexFlatIP.                                                      *)
(***************************************************************************)
NoIndex == [none |-> TRUE, d |-> 0, xb |-> <<>>]
IndexFlatIP(d) == [none |-> FALSE, d |-> d, xb |-> <<>>]
ntotal(ix) == Len(ix.xb)

\* index.add(x) asserts x.shape[1] == self.d
IndexAddOk_Unchecked(ix, vecs) == TRUE

IndexAddOk(ix, vecs) == \A i \in 1..Len(vecs) : Len(vecs[i]) = ix.d
IndexAdd(ix, vecs) == [ix EXCEPT !.xb = @ \o vecs]

\* index.reconstruct(key) raises unless 0 <= key < ntotal
ReconstructOk(ix, id) == ~ix.none /\ id \in 0..(ntotal(ix) - 1)

\* a reconstruct that answers every key with the first vector
Reconstruct_First(ix, id) == ix.xb[1]

Reconstruct(ix, id) == ix.xb[id + 1]

\* index.search(q, n): the ids of the n best inner products, best first (the
\* remaining slots are -1 and are skipped by the caller).  FAISS does not
\* specify the order of equal scores, nor which of them fall off the end.
RECURSIVE BestFirst(_, _, _)
BestFirst(score, ids, m) ==
    IF m = 0 \/ ids = {} THEN {<<>>}
    ELSE LET best == {id \in ids : \A o \in ids : score[id] >= score[o]}
         IN  UNION {{<<id>> \o c : c \in BestFirst(score, ids \ {id}, m - 1)} : id \in best}

IndexSearch(ix, q, n) ==
    LET ids == 0..(ntotal(ix) - 1)
        score == [id \in ids |-> Dot(q, ix.xb[id + 1])]
    IN  BestFirst(score, ids, n)

(***************************************************************************)
(* Metadata dict: vector id -> record.  Python iterates a dict in          *)
(* insertion order; every writer inserts ids in ascending order, so        *)
(* iteration is in ascending id order.                                     *)
(***************************************************************************)
EmptyMeta == [id \in {} |-> 0]

RECURSIVE SortedIds(_)
SortedIds(S) == IF S = {} THEN <<>> ELSE <<SetMin(S)>> \o SortedIds(S \ {SetMin(S)})

MetaItems(md) == SortedIds(DOMAIN md)

\* the number of records of a document
CountOf(md, document_id) == Cardinality({id \in DOMAIN md : md[id].document_id = document_id})

MetaRec_OneBased(document_id, i, chunk, title) ==
    [document_id |-> document_id, chunk_index |-> i + 1, text |-> chunk,
     document_title |-> title, chunk_length |-> Len(chunk)]

MetaRec(document_id, i, chunk, title) ==
    [document_id |-> document_id, chunk_index |-> i, text |-> chunk,
     document_title |-> title, chunk_length |-> Len(chunk)]

(***************************************************************************)
(* The manager (DocumentIndexer) and its persisted artifacts.              *)
(*   index, metadata, dimension : the fields of the DocumentIndexer        *)
(*   index_file, metadata_file  : the two files under VECTOR_DB_PATH, each *)
(*        [state, data] with state "missing", "ok" or "corrupt" (a file    *)
(*        that was opened for writing and not completely written)          *)
(*   embedding_model            : the model the process has configured     *)
(*   last                       : the last completed call: its name, its   *)
(*        arguments, its result, the index size it started from and the    *)
(*        number of records its document had then                          *)
(*   faults                     : how many calls have met a failing        *)
(*        collaborator (the embedding model or the file system) so far     *)
(*   indexed                    : per document, the fragments that         *)
(*        successful adds have indexed since its last successful removal   *)
(*   adder, remover, searcher   : the calls in progress on three threads   *)
(*        (the event loop running process_document, and two workers of     *)
(*        the thread pool running delete_document or rebuild_index and     *)
(*        search_documents): the statement each has reached (pc) and its   *)
(*        local variables                                                  *)
(*   episode                    : the manager as it was when the calls in  *)
(*        progress began, and how many times calls have overlapped         *)
(***************************************************************************)
VARIABLES index, metadata, dimension, index_file, metadata_file,
          embedding_model, last, faults, indexed,
          adder, remover, searcher, episode

vars == <<index, metadata, dimension, index_file, metadata_file,
          embedding_model, last, faults, indexed,
          adder, remover, searcher, episode>>

threads == <<adder, remover, searcher, episode>>

\* the manager and its files as one value
Snapshot == [index |-> index, metadata |-> metadata, dimension |-> dimension,
             index_file |-> index_file, metadata_file |-> metadata_file]

NoFile == [state |-> "missing", data |-> <<>>]
OkFile(data) == [state |-> "ok", data |-> data]
CorruptFile == [state |-> "corrupt", data |-> <<>>]

FreshManager == [index |-> NoIndex, metadata |-> EmptyMeta, dimension |-> 0,
                 index_file |-> NoFile, metadata_file |-> NoFile]

(***************************************************************************)
(* DocumentIndexer._save_index.  io names how far the writes get:          *)
(*   "ok"          both files written                                      *)
(*   "index_open"  faiss.write_index cannot open its file                  *)
(*   "index_write" faiss.write_index fails while writing                   *)
(*   "meta_open"   the index file is written, open(metadata_path) fails    *)
(*   "meta_dump"   the index file is written, pickle.dump fails            *)
(* Every outcome but "ok" raises.  Nothing is written when index is None.  *)
(* SaveOutcomes are the outcomes a running process is taken through,       *)
(* SavePoints all the places where a process can stop.                     *)
(***************************************************************************)
SaveOutcomes == {"ok", "index_write", "meta_open"}
SavePoints == {"ok", "index_open", "index_write", "meta_open", "meta_dump"}

save_index(s, io) ==
    IF s.index.none THEN [s |-> s, raised |-> FALSE]
    ELSE IF io = "index_open" THEN [s |-> s, raised |-> TRUE]
    ELSE IF io = "index_write"
         THEN [s |-> [s EXCEPT !.index_file = CorruptFile], raised |-> TRUE]
    ELSE IF io = "meta_open"
         THEN [s |-> [s EXCEPT !.index_file = OkFile(s.index)], raised |-> TRUE]
    ELSE IF io = "meta_dump"
         THEN [s |-> [s EXCEPT !.index_file = OkFile(s.index),
                               !.metadata_file = CorruptFile], raised |-> TRUE]
    ELSE [s |-> [s EXCEPT !.index_file = OkFile(s.index),
                          !.metadata_file = OkFile(s.metadata)], raised |-> FALSE]

(***************************************************************************)
(* DocumentIndexer.add_document_to_index.  The result is                   *)
(* [s: the manager afterwards, ret: the returned ids, raised].             *)
(* emb_ok = FALSE: model.encode raises.                                    *)
(***************************************************************************)
ChunkTable == [t \in Texts \cup EngineTexts |-> chunk_text(t, 0, 0)]

\* an except branch that logs and swallows the exception
Reraise_Swallowed(s) == [s |-> s, ret |-> <<>>, raised |-> FALSE]

\* "except Exception as e: ... raise": the call ends with the exception, the
\* manager stays as it was when the exception came up
Reraise(s) == [s |-> s, ret |-> <<>>, raised |-> TRUE]

\* an add that creates the embeddings before it looks at the fragment list
add_document_to_index_EmbedsFirst(s, m, document_id, document_text, document_title, emb_ok, io) ==
    LET text_chunks == ChunkTable[document_text]
        embeddings == create_embeddings(m, text_chunks)
        s1 == IF s.index.none
              THEN [s EXCEPT !.dimension = Len(embeddings[1]),
                             !.index = IndexFlatIP(Len(embeddings[1]))]
              ELSE s
        start_vector_id == ntotal(s1.index)
        vector_ids == [i \in 1..Len(text_chunks) |-> start_vector_id + i - 1]
        new_records == [id \in {vector_ids[i] : i \in 1..Len(text_chunks)} |->
                          MetaRec(document_id, id - start_vector_id,
                                  text_chunks[id - start_vector_id + 1], document_title)]
        s2 == [s1 EXCEPT !.index = IndexAdd(s1.index, embeddings),
                         !.metadata = new_records @@ s1.metadata]
        saved == save_index(s2, io)
    IN  IF ~emb_ok THEN Reraise(s)
        ELSE IF text_chunks = <<>> THEN [s |-> s, ret |-> <<>>, raised |-> FALSE]
        ELSE IF ~IndexAddOk(s1.index, embeddings) THEN Reraise(s1)
        ELSE IF saved.raised THEN Reraise(saved.s)
        ELSE [s |-> saved.s, ret |-> vector_ids, raised |-> FALSE]

add_document_to_index(s, m, document_id, document_text, document_title, emb_ok, io) ==
    LET text_chunks == ChunkTable[document_text]
        embeddings == create_embeddings(m, text_chunks)
        s1 == IF s.index.none
              THEN [s EXCEPT !.dimension = Len(embeddings[1]),
                             !.index = IndexFlatIP(Len(embeddings[1]))]
              ELSE s
        start_vector_id == ntotal(s1.index)
        vector_ids == [i \in 1..Len(text_chunks) |-> start_vector_id + i - 1]
        new_records == [id \in {vector_ids[i] : i \in 1..Len(text_chunks)} |->
                          MetaRec(document_id, id - start_vector_id,
                                  text_chunks[id - start_vector_id + 1], document_title)]
        s2 == [s1 EXCEPT !.index = IndexAdd(s1.index, embeddings),
                         !.metadata = new_records @@ s1.metadata]
        saved == save_index(s2, io)
    IN  IF text_chunks = <<>> THEN [s |-> s, ret |-> <<>>, raised |-> FALSE]
        ELSE IF ~emb_ok THEN Reraise(s)
        ELSE IF ~IndexAddOk(s1.index, embeddings) THEN Reraise(s1)
        ELSE IF saved.raised THEN Reraise(saved.s)
        ELSE [s |-> saved.s, ret |-> vector_ids, raised |-> FALSE]

(***************************************************************************)
(* DocumentIndexer.remove_document_from_index.                             *)
(***************************************************************************)
\* the ids to keep, in iteration order
KeepIds_FirstChunkOnly(md, document_id) ==
    SelectSeq(MetaItems(md), LAMBDA id : md[id].document_id # document_id
                                          \/ md[id].chunk_index > 0)

KeepIds(md, document_id) ==
    SelectSeq(MetaItems(md), LAMBDA id : md[id].document_id # document_id)

\* the rebuilt pair: vectors and records renumbered from 0 in the given order
Renumbered_KeepsOldIds(md, ids) == [id \in {ids[i] : i \in 1..Len(ids)} |-> md[id]]

Renumbered(md, ids) == [id \in 0..(Len(ids) - 1) |-> md[ids[id + 1]]]
Reconstructed_Reversed(ix, ids) ==
    [i \in 1..Len(ids) |-> Reconstruct(ix, ids[Len(ids) + 1 - i])]

Reconstructed(ix, ids) == [i \in 1..Len(ids) |-> Reconstruct(ix, ids[i])]

remove_document_from_index(s, document_id, io) ==
    LET keep == KeepIds(s.metadata, document_id)
        keep_vectors == Reconstructed(s.index, keep)
        keep_metadata == Renumbered(s.metadata, keep)
        fresh == IndexFlatIP(s.dimension)
        s1 == IF keep = <<>>
              THEN [s EXCEPT !.index = fresh, !.metadata = EmptyMeta]
              ELSE [s EXCEPT !.index = IndexAdd(fresh, keep_vectors),
                             !.metadata = keep_metadata]
        saved == save_index(s1, io)
    IN  IF s.index.none THEN [s |-> s, ret |-> FALSE]
        ELSE IF \E i \in 1..Len(keep) : ~ReconstructOk(s.index, keep[i])
             THEN [s |-> s, ret |-> FALSE]
        ELSE IF s.dimension = 0 THEN [s |-> s, ret |-> FALSE]
        ELSE IF keep # <<>> /\ ~IndexAddOk(fresh, keep_vectors)
             THEN [s |-> [s EXCEPT !.index = fresh], ret |-> FALSE]
        ELSE IF saved.raised THEN [s |-> saved.s, ret |-> FALSE]
        ELSE [s |-> saved.s, ret |-> TRUE]

(***************************************************************************)
(* list.sort(key=...) is stable, also with reverse=True.                   *)
(***************************************************************************)
\* pairs <<key, item>> sorted ascending by key, equal keys in their original order
RECURSIVE SortAsc(_)
SortAsc(seq) ==
    IF seq = <<>> THEN <<>>
    ELSE LET sorted == SortAsc(SubSeq(seq, 1, Len(seq) - 1))
             x == seq[Len(seq)]
             n == Cardinality({i \in 1..Len(sorted) : sorted[i][1] <= x[1]})
         IN  SubSeq(sorted, 1, n) \o <<x>> \o SubSeq(sorted, n + 1, Len(sorted))

\* pairs <<key, item>> sorted descending by key, equal keys in their original order
RECURSIVE SortDesc(_)
SortDesc(seq) ==
    IF seq = <<>> THEN <<>>
    ELSE LET sorted == SortDesc(SubSeq(seq, 1, Len(seq) - 1))
             x == seq[Len(seq)]
             n == Cardinality({i \in 1..Len(sorted) : sorted[i][1] >= x[1]})
         IN  SubSeq(sorted, 1, n) \o <<x>> \o SubSeq(sorted, n + 1, Len(sorted))

Items(pairs) == [i \in 1..Len(pairs) |-> pairs[i][2]]

(***************************************************************************)
(* DocumentIndexer.rebuild_index.                                          *)
(***************************************************************************)
\* the keys of documents_data, in the order the loop first meets them
RECURSIVE FirstSeen(_, _)
FirstSeen(md, ids) ==
    IF ids = <<>> THEN <<>>
    ELSE LET before == FirstSeen(md, SubSeq(ids, 1, Len(ids) - 1))
             d == md[ids[Len(ids)]].document_id
         IN  IF \E i \in 1..Len(before) : before[i] = d THEN before ELSE Append(before, d)

\* documents_data[doc_id] in the reverse of the order it was read in, unsorted
GroupIds_Reversed(md, doc_id) ==
    LET ids == SelectSeq(MetaItems(md), LAMBDA id : md[id].document_id = doc_id)
    IN  [i \in 1..Len(ids) |-> ids[Len(ids) + 1 - i]]

\* documents_data[doc_id] after the sort, as the ids the records were read from
GroupIds(md, doc_id) ==
    LET ids == SelectSeq(MetaItems(md), LAMBDA id : md[id].document_id = doc_id)
    IN  Items(SortAsc([i \in 1..Len(ids) |-> <<md[ids[i]].chunk_index, ids[i]>>]))

\* the inner loop: the first id whose record equals chunk_meta
OldVectorId(md, chunk_meta) == SetMin({vid \in DOMAIN md : md[vid] = chunk_meta})

RECURSIVE Flatten(_)
Flatten(seqs) == IF seqs = <<>> THEN <<>> ELSE Head(seqs) \o Flatten(Tail(seqs))

\* the records in the order the outer loops visit them, as source ids
RebuildOrder(md) ==
    LET docs == FirstSeen(md, MetaItems(md))
    IN  Flatten([i \in 1..Len(docs) |-> GroupIds(md, docs[i])])

\* a rebuild without the test for an empty metadata map: it finds no vectors
\* and reports a failure
rebuild_index_FailsWhenEmpty(s, io) ==
    LET order == RebuildOrder(s.metadata)
        old_ids == [i \in 1..Len(order) |-> OldVectorId(s.metadata, s.metadata[order[i]])]
        all_vectors == Reconstructed(s.index, old_ids)
        new_metadata == Renumbered(s.metadata, order)
        fresh == IndexFlatIP(s.dimension)
        s1 == [s EXCEPT !.index = IndexAdd(fresh, all_vectors), !.metadata = new_metadata]
        saved == save_index(s1, io)
    IN  IF DOMAIN s.metadata = {} THEN [s |-> s, ret |-> FALSE]
        ELSE IF \E i \in 1..Len(old_ids) : ~ReconstructOk(s.index, old_ids[i])
             THEN [s |-> s, ret |-> FALSE]
        ELSE IF s.dimension = 0 THEN [s |-> s, ret |-> FALSE]
        ELSE IF ~IndexAddOk(fresh, all_vectors)
             THEN [s |-> [s EXCEPT !.index = fresh], ret |-> FALSE]
        ELSE IF saved.raised THEN [s |-> saved.s, ret |-> FALSE]
        ELSE [s |-> saved.s, ret |-> TRUE]

rebuild_index(s, io) ==
    LET order == RebuildOrder(s.metadata)
        old_ids == [i \in 1..Len(order) |-> OldVectorId(s.metadata, s.metadata[order[i]])]
        all_vectors == Reconstructed(s.index, old_ids)
        new_metadata == Renumbered(s.metadata, order)
        fresh == IndexFlatIP(s.dimension)
        s1 == [s EXCEPT !.index = IndexAdd(fresh, all_vectors), !.metadata = new_metadata]
        saved == save_index(s1, io)
    IN  IF DOMAIN s.metadata = {} THEN [s |-> s, ret |-> TRUE]
        ELSE IF \E i \in 1..Len(old_ids) : ~ReconstructOk(s.index, old_ids[i])
             THEN [s |-> s, ret |-> FALSE]
        ELSE IF s.dimension = 0 THEN [s |-> s, ret |-> FALSE]
        ELSE IF ~IndexAddOk(fresh, all_vectors)
             THEN [s |-> [s EXCEPT !.index = fresh], ret |-> FALSE]
        ELSE IF saved.raised THEN [s |-> saved.s, ret |-> FALSE]
        ELSE [s |-> saved.s, ret |-> TRUE]

(***************************************************************************)
(* DocumentIndexer.search_similar_chunks.  document_ids is                 *)
(* [none |-> TRUE] for None, else [none |-> FALSE, ids |-> the list's      *)
(* elements]; cand is what index.search returned.                          *)
(***************************************************************************)
NoFilter == [none |-> TRUE, ids |-> {}]
Filter(S) == [none |-> FALSE, ids |-> S]
\* "if document_ids": a list is true when it is not empty
Truthy(document_ids) == ~document_ids.none /\ document_ids.ids # {}

\* self.metadata.get(idx, {}) read through .get(field, default)
ResultOf(md, idx, score) ==
    LET has == idx \in DOMAIN md
    IN  [vector_id |-> idx,
         score |-> score,
         document_id |-> IF has THEN md[idx].document_id ELSE PyNone,
         chunk_index |-> IF has THEN md[idx].chunk_index ELSE PyNone,
         text |-> IF has THEN md[idx].text ELSE "",
         document_title |-> IF has THEN md[idx].document_title ELSE "",
         chunk_length |-> IF has THEN md[idx].chunk_length ELSE 0]

\* the loop over the candidates: filter, collect, stop at top_k
RECURSIVE Collect(_, _, _, _)
Collect(cands, results, top_k, document_ids) ==
    IF cands = <<>> \/ Len(results) >= top_k THEN results
    ELSE IF Truthy(document_ids) /\ Head(cands).document_id \notin document_ids.ids
         THEN Collect(Tail(cands), results, top_k, document_ids)
         ELSE Collect(Tail(cands), Append(results, Head(cands)), top_k, document_ids)

search_results(ix, md, q, cand, top_k, document_ids) ==
    LET cands == [i \in 1..Len(cand) |->
                    ResultOf(md, cand[i], Dot(q, ix.xb[cand[i] + 1]))]
        results == Collect(cands, <<>>, top_k, document_ids)
    IN  Items(SortDesc([i \in 1..Len(results) |-> <<results[i].score, results[i]>>]))

\* the whole call for a given manager: the set of possible results
\* ([ret, raised, cand, encoded]: encoded tells whether _create_embeddings
\* was called); the query embedding of the wrong dimension makes
\* index.search raise
search_similar_chunks_ChecksNoneOnly(s, m, query_text, top_k, document_ids) ==
    LET q == EmbedText(m, query_text)
    IN  IF s.index.none
        THEN {[ret |-> <<>>, raised |-> FALSE, cand |-> <<>>, encoded |-> FALSE]}
        ELSE IF Len(q) # s.index.d
        THEN {[ret |-> <<>>, raised |-> TRUE, cand |-> <<>>, encoded |-> TRUE]}
        ELSE {[ret |-> search_results(s.index, s.metadata, q, cand, top_k, document_ids),
               raised |-> FALSE, cand |-> cand, encoded |-> TRUE] :
                 cand \in IndexSearch(s.index, q, top_k * 2)}

search_similar_chunks(s, m, query_text, top_k, document_ids) ==
    LET q == EmbedText(m, query_text)
    IN  IF s.index.none \/ ntotal(s.index) = 0
        THEN {[ret |-> <<>>, raised |-> FALSE, cand |-> <<>>, encoded |-> FALSE]}
        ELSE IF Len(q) # s.index.d
        THEN {[ret |-> <<>>, raised |-> TRUE, cand |-> <<>>, encoded |-> TRUE]}
        ELSE {[ret |-> search_results(s.index, s.metadata, q, cand, top_k, document_ids),
               raised |-> FALSE, cand |-> cand, encoded |-> TRUE] :
                 cand \in IndexSearch(s.index, q, top_k * 2)}

(***************************************************************************)
(* DocumentIndexer.get_index_stats.  index_size_mb is the size of the      *)
(* index file; the model reports the number of vectors the file holds.     *)
(***************************************************************************)
get_index_stats_CountsRecords(s) ==
    IF s.index.none
    THEN [total_vectors |-> 0, dimension |-> 0, documents_count |-> 0, index_size_mb |-> 0]
    ELSE [total_vectors |-> ntotal(s.index),
          dimension |-> s.dimension,
          documents_count |-> Cardinality(DOMAIN s.metadata),
          index_size_mb |-> IF s.index_file.state = "ok"
                            THEN ntotal(s.index_file.data) ELSE 0]

get_index_stats(s) ==
    IF s.index.none
    THEN [total_vectors |-> 0, dimension |-> 0, documents_count |-> 0, index_size_mb |-> 0]
    ELSE [total_vectors |-> ntotal(s.index),
          dimension |-> s.dimension,
          documents_count |->
              Cardinality({s.metadata[id].document_id : id \in DOMAIN s.metadata}),
          index_size_mb |-> IF s.index_file.state = "ok"
                            THEN ntotal(s.index_file.data) ELSE 0]

(***************************************************************************)
(* VectorSearchEngine.find_similar_documents.  Scores are floats in the    *)
(* code; here a score is an integer (1.0 is 25) and an average is kept in  *)
(* units of 1 / AvgUnit of a score, which every count up to MaxVectors     *)
(* divides, so that the running average stays an exact integer.            *)
(***************************************************************************)
RECURSIVE Factorial(_)
Factorial(n) == IF n <= 1 THEN 1 ELSE n * Factorial(n - 1)

AvgUnit == Factorial(MaxVectors)

\* " ".join(texts)
RECURSIVE JoinSpace(_)
JoinSpace(texts) ==
    IF texts = <<>> THEN ""
    ELSE IF Len(texts) = 1 THEN Head(texts)
    ELSE Head(texts) \o " " \o JoinSpace(Tail(texts))

\* lst[:n]
FirstN(lst, n) == SubSeq(lst, 1, Min2(n, Len(lst)))

\* the texts of the document's records, in the order the metadata is read
TargetChunks(md, document_id) ==
    LET ids == SelectSeq(MetaItems(md), LAMBDA id : md[id].document_id = document_id)
    IN  [i \in 1..Len(ids) |-> md[ids[i]].text]

\* the position of a document in doc_scores, 0 when it has no entry yet
SlotOf(doc_scores, doc_id) ==
    IF \E i \in 1..Len(doc_scores) : doc_scores[i].document_id = doc_id
    THEN CHOOSE i \in 1..Len(doc_scores) : doc_scores[i].document_id = doc_id
    ELSE 0

\* "if chunk_doc_id != document_id", without the test
OtherDocument_Always(chunk_doc_id, document_id) == TRUE

\* "if chunk_doc_id != document_id"
OtherDocument(chunk_doc_id, document_id) == chunk_doc_id # document_id

\* a running average that counts the new hit before it weighs the old average
RunningAvg_CountFirst(avg_score, chunk_count, score) ==
    (avg_score * (chunk_count + 1) + score * AvgUnit) \div (chunk_count + 2)

\* (avg_score * chunk_count + score) / (chunk_count + 1), in units of 1/AvgUnit
RunningAvg(avg_score, chunk_count, score) ==
    (avg_score * chunk_count + score * AvgUnit) \div (chunk_count + 1)

\* the loop over similar_chunks: doc_scores in insertion order
RECURSIVE DocScores(_, _, _)
DocScores(chunks, doc_scores, document_id) ==
    IF chunks = <<>> THEN doc_scores
    ELSE LET chunk == Head(chunks)
             k == SlotOf(doc_scores, chunk.document_id)
         IN  IF ~OtherDocument(chunk.document_id, document_id)
             THEN DocScores(Tail(chunks), doc_scores, document_id)
             ELSE IF k = 0
             THEN DocScores(Tail(chunks),
                      Append(doc_scores, [document_id |-> chunk.document_id,
                                          max_score |-> chunk.score,
                                          avg_score |-> chunk.score * AvgUnit,
                                          chunk_count |-> 1,
                                          title |-> chunk.document_title]),
                      document_id)
             ELSE DocScores(Tail(chunks),
                      [doc_scores EXCEPT
                         ![k].max_score = Max2(@, chunk.score),
                         ![k].avg_score =
                             RunningAvg(@, doc_scores[k].chunk_count, chunk.score),
                         ![k].chunk_count = @ + 1],
                      document_id)

\* the set of possible results; a search that raises is answered by []
find_similar_documents(s, m, document_id, top_k) ==
    LET target_chunks == TargetChunks(s.metadata, document_id)
        combined_text == JoinSpace(FirstN(target_chunks, 5))
    IN  IF target_chunks = <<>> THEN {<<>>}
        ELSE {IF r.raised THEN <<>>
              ELSE LET doc_scores == DocScores(r.ret, <<>>, document_id)
                       similar_docs ==
                           Items(SortDesc([i \in 1..Len(doc_scores) |->
                                             <<doc_scores[i].avg_score, doc_scores[i]>>]))
                   IN  FirstN(similar_docs, top_k) :
                r \in search_similar_chunks(s, m, combined_text, top_k * 5, NoFilter)}

(***************************************************************************)
(* VectorSearchEngine.find_relevant_context and _explain_relevance.  The   *)
(* reason is reduced to its kind: "keywords" for the text that lists the   *)
(* common words, "semantic" for the other text.                            *)
(***************************************************************************)
ScoreOne == 25       \* the integer that stands for the score 1.0

UpperCase == "ABCDEFGHIJKLMNOPQRSTUVWXYZ"
LowerCase == "abcdefghijklmnopqrstuvwxyz"

\* str.lower() on the letters A-Z (halving keeps the recursion shallow)
RECURSIVE Lower(_)
Lower(str) ==
    IF str = "" THEN ""
    ELSE IF Len(str) = 1
    THEN LET up == {i \in 1..Len(UpperCase) : CharAt(UpperCase, i) = str}
         IN  IF up = {} THEN str ELSE CharAt(LowerCase, SetMin(up))
    ELSE LET half == Len(str) \div 2
         IN  Lower(SubSeq(str, 1, half)) \o Lower(SubSeq(str, half + 1, Len(str)))

\* set(str.split()): the maximal runs of characters that are not whitespace
Words(str) ==
    LET blank == {i \in 1..Len(str) : CharAt(str, i) \in Whitespace}
        starts == {i \in (1..Len(str)) \ blank : i = 1 \/ (i - 1) \in blank}
        EndOf(i) == SetMin({j \in (i + 1)..(Len(str) + 1) : j \in blank \/ j = Len(str) + 1}) - 1
    IN  {SubSeq(str, i, EndOf(i)) : i \in starts}

explain_relevance(question, text) ==
    LET common_words == Words(Lower(question)) \cap Words(Lower(text))
    IN  IF Cardinality(common_words) > 2 THEN "keywords" ELSE "semantic"

\* chunk["score"] > 0.3, without the test
Relevant_Always(score) == TRUE

\* chunk["score"] > 0.3
Relevant(score) == 10 * score > 3 * ScoreOne

\* _explain_relevance tabulated over the questions asked and the fragment
\* texts stored
FragmentTexts ==
    UNION {{ChunkTable[t][i] : i \in 1..Len(ChunkTable[t])} : t \in DOMAIN ChunkTable}
ReasonTable ==
    [question \in EngineQueries |->
        [text \in FragmentTexts |-> explain_relevance(question, text)]]

WithReason(question, chunk) ==
    [vector_id |-> chunk.vector_id, score |-> chunk.score,
     document_id |-> chunk.document_id, chunk_index |-> chunk.chunk_index,
     text |-> chunk.text, document_title |-> chunk.document_title,
     chunk_length |-> chunk.chunk_length,
     relevance_reason |-> ReasonTable[question][chunk.text]]

\* the set of possible outcomes [ret, similar_chunks]; a search that raises
\* is answered by []
find_relevant_context(s, m, question, document_ids, max_chunks) ==
    {LET relevant_chunks ==
             FirstN(SelectSeq(r.ret, LAMBDA chunk : Relevant(chunk.score)), max_chunks)
     IN  [ret |-> IF r.raised THEN <<>>
                  ELSE [i \in 1..Len(relevant_chunks) |->
                           WithReason(question, relevant_chunks[i])],
          similar_chunks |-> r.ret] :
       r \in search_similar_chunks(s, m, question, max_chunks * 2, document_ids)}

(***************************************************************************)
(* VectorSearchEngine.get_document_summary_context.                        *)
(***************************************************************************)
\* [lst[i] for i in range(0, len(lst), step)] for step > 0
EveryNth(lst, step) ==
    [k \in 1..((Len(lst) + step - 1) \div step) |-> lst[(k - 1) * step + 1]]

\* a division by zero (max_chunks = 0 on a document with fragments) is
\* answered by []; a negative max_chunks gives an empty range
get_document_summary_context(s, document_id, max_chunks) ==
    LET ids == GroupIds(s.metadata, document_id)
        all_chunks == [i \in 1..Len(ids) |-> s.metadata[ids[i]].text]
    IN  IF Len(all_chunks) > max_chunks
        THEN IF max_chunks <= 0 THEN <<>>
             ELSE FirstN(EveryNth(all_chunks, Len(all_chunks) \div max_chunks), max_chunks)
        ELSE all_chunks

(***************************************************************************)
(* Calls on one manager, one at a time (Spec).                             *)
(***************************************************************************)
Filters == {NoFilter} \cup {Filter(S) : S \in SUBSET DocIds}

Install(s) ==
    /\ index' = s.index
    /\ metadata' = s.metadata
    /\ dimension' = s.dimension
    /\ index_file' = s.index_file
    /\ metadata_file' = s.metadata_file

\* no call in progress on a thread
IdleAdder == [pc |-> "idle", document_id |-> 0, text |-> "", title |-> "",
              start_vector_id |-> 0, i |-> 0, ret |-> <<>>, raised |-> FALSE,
              processing_status |-> "pending"]
IdleRemover == [pc |-> "idle", op |-> "none", document_id |-> 0, keys |-> <<>>,
                size |-> 0, i |-> 0, keep_vectors |-> <<>>, keep_metadata |-> <<>>,
                ret |-> FALSE]
IdleSearcher == [pc |-> "idle", query_text |-> "", top_k |-> 0, document_ids |-> NoFilter,
                 indices |-> <<>>, scores |-> <<>>, i |-> 0, results |-> <<>>,
                 ret |-> <<>>, raised |-> FALSE]
NoEpisode == [count |-> 0, active |-> FALSE, start |-> FreshManager]

Init ==
    /\ index = NoIndex
    /\ metadata = EmptyMeta
    /\ dimension = 0
    /\ index_file = NoFile
    /\ metadata_file = NoFile
    /\ embedding_model = "m1"
    /\ last = [op |-> "init", arg |-> <<>>, ret |-> <<>>, raised |-> FALSE, n_before |-> 0,
               d_before |-> 0]
    /\ faults = 0
    /\ indexed = [d \in DocIds |-> 0]
    /\ adder = IdleAdder
    /\ remover = IdleRemover
    /\ searcher = IdleSearcher
    /\ episode = NoEpisode

\* a call with a failing collaborator is taken only within the fault budget
Faulty(emb_ok, io) == ~emb_ok \/ io # "ok"
CountFault(emb_ok, io) ==
    /\ Faulty(emb_ok, io) => faults < MaxFaults
    /\ faults' = IF Faulty(emb_ok, io) THEN faults + 1 ELSE faults

AddDocument(document_id, text, title, emb_ok, io) ==
    /\ ntotal(index) + Len(ChunkTable[text]) <= MaxVectors
    /\ CountFault(emb_ok, io)
    /\ LET r == add_document_to_index(Snapshot, embedding_model, document_id, text,
                                      title, emb_ok, io)
       IN  /\ Install(r.s)
           /\ last' = [op |-> "add",
                       arg |-> [document_id |-> document_id, text |-> text,
                                title |-> title, emb_ok |-> emb_ok, io |-> io],
                       ret |-> r.ret, raised |-> r.raised, n_before |-> ntotal(index),
                       d_before |-> CountOf(metadata, document_id)]
           /\ indexed' = IF r.raised THEN indexed
                          ELSE [indexed EXCEPT ![document_id] = @ + Len(r.ret)]
    /\ UNCHANGED <<embedding_model, threads>>

RemoveDocument(document_id, io) ==
    /\ CountFault(TRUE, io)
    /\ LET r == remove_document_from_index(Snapshot, document_id, io)
       IN  /\ Install(r.s)
           /\ last' = [op |-> "remove",
                       arg |-> [document_id |-> document_id, io |-> io],
                       ret |-> r.ret, raised |-> FALSE, n_before |-> ntotal(index),
                       d_before |-> CountOf(metadata, document_id)]
           /\ indexed' = IF r.ret THEN [indexed EXCEPT ![document_id] = 0] ELSE indexed
    /\ UNCHANGED <<embedding_model, threads>>

RebuildIndex(io) ==
    /\ CountFault(TRUE, io)
    /\ LET r == rebuild_index(Snapshot, io)
       IN  /\ Install(r.s)
           /\ last' = [op |-> "rebuild", arg |-> [io |-> io],
                       ret |-> r.ret, raised |-> FALSE, n_before |-> ntotal(index),
                       d_before |-> 0]
    /\ UNCHANGED <<embedding_model, indexed, threads>>

\* search_similar_chunks changes nothing, so a search that directly follows a
\* search reaches no state that a single search does not reach: the model
\* takes a search after a call of another kind.
Search(query_text, top_k, document_ids) ==
    /\ last.op # "search"
    /\ \E r \in search_similar_chunks(Snapshot, embedding_model, query_text, top_k,
                                      document_ids) :
          last' = [op |-> "search",
                   arg |-> [query_text |-> query_text, top_k |-> top_k,
                            document_ids |-> document_ids, cand |-> r.cand,
                            encoded |-> r.encoded],
                   ret |-> r.ret, raised |-> r.raised, n_before |-> ntotal(index),
                   d_before |-> 0]
    /\ UNCHANGED <<index, metadata, dimension, index_file, metadata_file,
                   embedding_model, faults, indexed, threads>>

Stats ==
    /\ last' = [op |-> "stats", arg |-> <<>>, ret |-> get_index_stats(Snapshot),
                raised |-> FALSE, n_before |-> ntotal(index), d_before |-> 0]
    /\ UNCHANGED <<index, metadata, dimension, index_file, metadata_file,
                   embedding_model, faults, indexed, threads>>

Next ==
    \/ \E d \in DocIds, t \in Texts, title \in Titles, io \in SaveOutcomes :
          AddDocument(d, t, title, TRUE, io)
    \/ \E d \in DocIds, t \in Texts, title \in Titles :
          AddDocument(d, t, title, FALSE, "ok")
    \/ \E d \in DocIds, io \in SaveOutcomes : RemoveDocument(d, io)
    \/ \E io \in SaveOutcomes : RebuildIndex(io)
    \/ Stats

Spec == Init /\ [][Next]_vars

(***************************************************************************)
(* Searches between calls (SpecSearch).  A search reads only the index and *)
(* the metadata map, and a call whose save fails leaves both as a call     *)
(* whose save succeeds, so the calls here are the ones that succeed.       *)
(***************************************************************************)
NextSearch ==
    \/ \E d \in DocIds, t \in Texts, title \in Titles :
          AddDocument(d, t, title, TRUE, "ok")
    \/ \E d \in DocIds : RemoveDocument(d, "ok")
    \/ RebuildIndex("ok")
    \/ \E q \in Queries, k \in 1..MaxTopK, f \in Filters : Search(q, k, f)

SpecSearch == Init /\ [][NextSearch]_vars

(***************************************************************************)
(* DocumentIndexer._load_index, run by the constructor on the fields       *)
(* index = None, metadata = {}, dimension = None.  A corrupt file exists   *)
(* and makes its reader raise; dimension is assigned before the metadata   *)
(* is read and is not reset by the except branch.                          *)
(***************************************************************************)
load_index_KeepsIndex(idxf, mdf) ==
    LET base == [index |-> NoIndex, metadata |-> EmptyMeta, dimension |-> 0,
                 index_file |-> idxf, metadata_file |-> mdf]
    IN  IF idxf.state = "missing" \/ mdf.state = "missing" THEN base
        ELSE IF idxf.state = "corrupt" THEN base
        ELSE IF mdf.state = "corrupt"
             THEN [base EXCEPT !.index = idxf.data, !.dimension = idxf.data.d]
        ELSE [base EXCEPT !.index = idxf.data, !.dimension = idxf.data.d,
                          !.metadata = mdf.data]

load_index(idxf, mdf) ==
    LET base == [index |-> NoIndex, metadata |-> EmptyMeta, dimension |-> 0,
                 index_file |-> idxf, metadata_file |-> mdf]
    IN  IF idxf.state = "missing" \/ mdf.state = "missing" THEN base
        ELSE IF idxf.state = "corrupt" THEN base
        ELSE IF mdf.state = "corrupt" THEN [base EXCEPT !.dimension = idxf.data.d]
        ELSE [base EXCEPT !.index = idxf.data, !.dimension = idxf.data.d,
                          !.metadata = mdf.data]

(***************************************************************************)
(* Process stops and restarts (SpecCrash).  A process that stops inside a  *)
(* call leaves the files as the call had written them up to that point; a  *)
(* new process then constructs its manager from the files.                *)
(***************************************************************************)
Pair(s) == [index |-> s.index, metadata |-> s.metadata]

\* the process stops inside a call that would have led from Snapshot to
\* `done`, having reached `stopped`
CrashRestart(during, stopped, done) ==
    /\ faults < MaxFaults
    /\ faults' = faults + 1
    /\ Install(load_index(stopped.index_file, stopped.metadata_file))
    /\ last' = [op |-> "crash",
                arg |-> [during |-> during, before |-> Pair(Snapshot), after |-> Pair(done)],
                ret |-> <<>>, raised |-> FALSE, n_before |-> ntotal(index),
                d_before |-> 0]
    /\ UNCHANGED <<embedding_model, indexed, threads>>

CrashInAdd(document_id, text, title, point) ==
    /\ ntotal(index) + Len(ChunkTable[text]) <= MaxVectors
    /\ CrashRestart("add",
          add_document_to_index(Snapshot, embedding_model, document_id, text, title,
                                TRUE, point).s,
          add_document_to_index(Snapshot, embedding_model, document_id, text, title,
                                TRUE, "ok").s)

CrashInRemove(document_id, point) ==
    CrashRestart("remove",
        remove_document_from_index(Snapshot, document_id, point).s,
        remove_document_from_index(Snapshot, document_id, "ok").s)

CrashInRebuild(point) ==
    CrashRestart("rebuild", rebuild_index(Snapshot, point).s,
                 rebuild_index(Snapshot, "ok").s)

\* an orderly stop and start
Restart ==
    /\ Install(load_index(index_file, metadata_file))
    /\ last' = [op |-> "restart", arg |-> <<>>, ret |-> <<>>, raised |-> FALSE,
                n_before |-> ntotal(index), d_before |-> 0]
    /\ UNCHANGED <<embedding_model, faults, indexed, threads>>

NextCrash ==
    \/ \E d \in DocIds, t \in Texts, title \in Titles :
          AddDocument(d, t, title, TRUE, "ok")
    \/ \E d \in DocIds : RemoveDocument(d, "ok")
    \/ RebuildIndex("ok")
    \/ \E d \in DocIds, t \in Texts, title \in Titles, point \in SavePoints :
          CrashInAdd(d, t, title, point)
    \/ \E d \in DocIds, point \in SavePoints : CrashInRemove(d, point)
    \/ \E point \in SavePoints : CrashInRebuild(point)
    \/ Restart

SpecCrash == Init /\ [][NextCrash]_vars

(***************************************************************************)
(* Reads of a manager that has been stopped and started (SpecLoad).  The   *)
(* process stops inside a call or after it, the constructor runs on the    *)
(* files as they are then, and searches and stats follow.  A search        *)
(* changes nothing but `last`; the searches of an index that holds vectors *)
(* are those of SpecSearch and are not repeated here.                      *)
(***************************************************************************)
\* a new process constructs its manager after the old one reached `stopped`;
\* the fragments counted as indexed are then the ones the loaded metadata holds
Startup(stopped) ==
    /\ faults < MaxFaults
    /\ faults' = faults + 1
    /\ LET loaded == load_index(stopped.index_file, stopped.metadata_file)
       IN  /\ Install(loaded)
           /\ indexed' = [d \in DocIds |-> CountOf(loaded.metadata, d)]
    /\ last' = [op |-> "startup", arg |-> <<>>, ret |-> <<>>, raised |-> FALSE,
                n_before |-> 0, d_before |-> 0]
    /\ UNCHANGED <<embedding_model, threads>>

StartupInAdd(document_id, text, title, point) ==
    /\ ntotal(index) + Len(ChunkTable[text]) <= MaxVectors
    /\ Startup(add_document_to_index(Snapshot, embedding_model, document_id, text, title,
                                     TRUE, point).s)

StartupInRemove(document_id, point) ==
    Startup(remove_document_from_index(Snapshot, document_id, point).s)

StartupInRebuild(point) == Startup(rebuild_index(Snapshot, point).s)

SearchEmpty(query_text, top_k, document_ids) ==
    /\ index.none \/ ntotal(index) = 0
    /\ Search(query_text, top_k, document_ids)

NextLoad ==
    \/ \E d \in DocIds, t \in Texts, title \in Titles :
          AddDocument(d, t, title, TRUE, "ok")
    \/ \E d \in DocIds : RemoveDocument(d, "ok")
    \/ RebuildIndex("ok")
    \/ \E d \in DocIds, t \in Texts, title \in Titles, point \in SavePoints :
          StartupInAdd(d, t, title, point)
    \/ \E d \in DocIds, point \in SavePoints : StartupInRemove(d, point)
    \/ \E point \in SavePoints : StartupInRebuild(point)
    \/ \E q \in Queries, k \in 1..MaxTopK, f \in Filters : SearchEmpty(q, k, f)
    \/ Stats

SpecLoad == Init /\ [][NextLoad]_vars

(***************************************************************************)
(* A change of the configured embedding model (SpecModel).                 *)
(* settings.EMBEDDING_MODEL is read when the process starts, so the model  *)
(* changes with a stop and start of the process; the calls are the ones    *)
(* that save successfully.                                                 *)
(***************************************************************************)
RestartWith(m) ==
    /\ m # embedding_model
    /\ embedding_model' = m
    /\ Install(load_index(index_file, metadata_file))
    /\ last' = [op |-> "restart", arg |-> <<>>, ret |-> <<>>, raised |-> FALSE,
                n_before |-> ntotal(index), d_before |-> 0]
    /\ UNCHANGED <<faults, indexed, threads>>

NextModel ==
    \/ \E d \in DocIds, t \in Texts, title \in Titles :
          AddDocument(d, t, title, TRUE, "ok")
    \/ \E d \in DocIds : RemoveDocument(d, "ok")
    \/ RebuildIndex("ok")
    \/ \E m \in Models : RestartWith(m)

SpecModel == Init /\ [][NextModel]_vars

(***************************************************************************)
(* Calls on the VectorSearchEngine between calls on the manager            *)
(* (SpecEngine).  The engine only reads the manager, so an engine call     *)
(* that directly follows an engine call reaches nothing new: the model     *)
(* takes one after a call of another kind.                                 *)
(***************************************************************************)
EngineOps == {"find_similar_documents", "find_relevant_context",
              "get_document_summary_context"}
EngineFilters == {NoFilter, Filter({1})}

FindSimilarDocuments(document_id, top_k) ==
    /\ last.op \notin EngineOps
    /\ \E r \in find_similar_documents(Snapshot, embedding_model, document_id, top_k) :
          last' = [op |-> "find_similar_documents",
                   arg |-> [document_id |-> document_id, top_k |-> top_k],
                   ret |-> r, raised |-> FALSE, n_before |-> ntotal(index),
                   d_before |-> CountOf(metadata, document_id)]
    /\ UNCHANGED <<index, metadata, dimension, index_file, metadata_file,
                   embedding_model, faults, indexed, threads>>

FindRelevantContext(question, document_ids, max_chunks) ==
    /\ last.op \notin EngineOps
    /\ \E r \in find_relevant_context(Snapshot, embedding_model, question, document_ids,
                                      max_chunks) :
          last' = [op |-> "find_relevant_context",
                   arg |-> [question |-> question, document_ids |-> document_ids,
                            max_chunks |-> max_chunks,
                            similar_chunks |-> r.similar_chunks],
                   ret |-> r.ret, raised |-> FALSE, n_before |-> ntotal(index),
                   d_before |-> 0]
    /\ UNCHANGED <<index, metadata, dimension, index_file, metadata_file,
                   embedding_model, faults, indexed, threads>>

GetDocumentSummaryContext(document_id, max_chunks) ==
    /\ last.op \notin EngineOps
    /\ last' = [op |-> "get_document_summary_context",
                arg |-> [document_id |-> document_id, max_chunks |-> max_chunks],
                ret |-> get_document_summary_context(Snapshot, document_id, max_chunks),
                raised |-> FALSE, n_before |-> ntotal(index),
                d_before |-> CountOf(metadata, document_id)]
    /\ UNCHANGED <<index, metadata, dimension, index_file, metadata_file,
                   embedding_model, faults, indexed, threads>>

NextEngine ==
    \/ \E d \in EngineDocIds, t \in EngineTexts, title \in Titles :
          AddDocument(d, t, title, TRUE, "ok")
    \/ \E d \in EngineDocIds : RemoveDocument(d, "ok")
    \/ RebuildIndex("ok")
    \/ \E d \in EngineDocIds, k \in 1..MaxTopK : FindSimilarDocuments(d, k)

InitEngine ==
    /\ index = NoIndex
    /\ metadata = EmptyMeta
    /\ dimension = 0
    /\ index_file = NoFile
    /\ metadata_file = NoFile
    /\ embedding_model = "m1"
    /\ last = [op |-> "init", arg |-> <<>>, ret |-> <<>>, raised |-> FALSE, n_before |-> 0,
               d_before |-> 0]
    /\ faults = 0
    /\ indexed = [d \in EngineDocIds |-> 0]
    /\ adder = IdleAdder
    /\ remover = IdleRemover
    /\ searcher = IdleSearcher
    /\ episode = NoEpisode

SpecEngine == InitEngine /\ [][NextEngine]_vars

\* the engine calls that take a question or one document, on the documents
\* and texts of Spec (SpecContext)
NextContext ==
    \/ \E d \in DocIds, t \in Texts, title \in Titles :
          AddDocument(d, t, title, TRUE, "ok")
    \/ \E d \in DocIds : RemoveDocument(d, "ok")
    \/ RebuildIndex("ok")
    \/ \E q \in EngineQueries, f \in EngineFilters, k \in 1..MaxTopK :
          FindRelevantContext(q, f, k)
    \/ \E d \in DocIds, k \in 1..MaxTopK : GetDocumentSummaryContext(d, k)

SpecContext == Init /\ [][NextContext]_vars

(***************************************************************************)
(* The search route, search_documents (api/v1/document.py), next to direct *)
(* calls of search_similar_chunks such as the one find_relevant_context    *)
(* makes (SpecApi).  status is the HTTP status of the answer; called tells *)
(* whether the manager was called.                                         *)
(***************************************************************************)
ApiQueries == {"", " ", "A. B. C."}

search_documents(s, m, query, document_ids, top_k) ==
    IF Strip(query) = ""
    THEN {[status |-> 400, search_results |-> <<>>, called |-> FALSE, encoded |-> FALSE]}
    ELSE {[status |-> IF r.raised THEN 500 ELSE 200,
           search_results |-> r.ret, called |-> TRUE, encoded |-> r.encoded] :
            r \in search_similar_chunks(s, m, query, top_k, document_ids)}

SearchDocuments(query, document_ids, top_k) ==
    /\ last.op \notin {"search", "search_documents"}
    /\ \E r \in search_documents(Snapshot, embedding_model, query, document_ids, top_k) :
          last' = [op |-> "search_documents",
                   arg |-> [query_text |-> query, top_k |-> top_k,
                            document_ids |-> document_ids, called |-> r.called,
                            encoded |-> r.encoded],
                   ret |-> [status |-> r.status, search_results |-> r.search_results],
                   raised |-> r.status # 200, n_before |-> ntotal(index), d_before |-> 0]
    /\ UNCHANGED <<index, metadata, dimension, index_file, metadata_file,
                   embedding_model, faults, indexed, threads>>

SearchSimilarChunks(query_text, top_k, document_ids) ==
    /\ last.op # "search_documents"
    /\ Search(query_text, top_k, document_ids)

NextApi ==
    \/ \E d \in DocIds, t \in Texts, title \in Titles :
          AddDocument(d, t, title, TRUE, "ok")
    \/ \E d \in DocIds : RemoveDocument(d, "ok")
    \/ RebuildIndex("ok")
    \/ \E q \in ApiQueries, k \in 1..MaxTopK : SearchDocuments(q, NoFilter, k)
    \/ \E q \in ApiQueries, k \in 1..MaxTopK : SearchSimilarChunks(q, k, NoFilter)

SpecApi == Init /\ [][NextApi]_vars

(***************************************************************************)
(* The route DELETE /documents/{document_id} (SpecDelete).  The database   *)
(* and the uploaded file are outside the model; what they do in a call is  *)
(* an input of the call:                                                   *)
(*   "not_found"   get_document finds no row: 404                          *)
(*   "file_error"  os.remove raises: 500, the index is not touched         *)
(*   "db_failed"   the row is not deleted: 500, after the index call       *)
(*   "ok"          the row is deleted: 200                                 *)
(* The value remove_document_from_index returns is not looked at.          *)
(***************************************************************************)
DeleteOutcomes == {"not_found", "file_error", "db_failed", "ok"}

delete_document(s, document_id, outcome, io) ==
    LET r == remove_document_from_index(s, document_id, io)
    IN  IF outcome = "not_found" THEN [s |-> s, status |-> 404, removed |-> FALSE]
        ELSE IF outcome = "file_error" THEN [s |-> s, status |-> 500, removed |-> FALSE]
        ELSE IF outcome = "db_failed" THEN [s |-> r.s, status |-> 500, removed |-> r.ret]
        ELSE [s |-> r.s, status |-> 200, removed |-> r.ret]

DeleteDocument(document_id, outcome, io) ==
    /\ CountFault(TRUE, io)
    /\ LET r == delete_document(Snapshot, document_id, outcome, io)
       IN  /\ Install(r.s)
           /\ last' = [op |-> "delete_document",
                       arg |-> [document_id |-> document_id, outcome |-> outcome,
                                io |-> io, removed |-> r.removed],
                       ret |-> r.status, raised |-> r.status # 200,
                       n_before |-> ntotal(index),
                       d_before |-> CountOf(metadata, document_id)]
           /\ indexed' = IF r.removed THEN [indexed EXCEPT ![document_id] = 0] ELSE indexed
    /\ UNCHANGED <<embedding_model, threads>>

NextDelete ==
    \/ \E d \in DocIds, t \in Texts, title \in Titles :
          AddDocument(d, t, title, TRUE, "ok")
    \/ \E d \in DocIds, outcome \in DeleteOutcomes, io \in SaveOutcomes :
          DeleteDocument(d, outcome, io)

SpecDelete == Init /\ [][NextDelete]_vars

(***************************************************************************)
(* The background task process_document (SpecProcess).  The upload route   *)
(* creates the document row with the next id and the status "pending" and  *)
(* schedules the task; `adder` holds the task's position, its document and *)
(* the processing_status of that document's row.  extract_text is outside  *)
(* the model: it returns one of the texts or raises.                       *)
(***************************************************************************)
ProcessDocument(text, title) ==
    /\ adder.pc \in {"idle", "finished"}
    /\ adder.document_id + 1 \in DocIds
    /\ adder' = [IdleAdder EXCEPT !.pc = "scheduled",
                                  !.document_id = adder.document_id + 1,
                                  !.text = text, !.title = title]
    /\ last' = [op |-> "process_document", arg |-> <<>>, ret |-> <<>>, raised |-> FALSE,
                n_before |-> ntotal(index), d_before |-> 0]
    /\ UNCHANGED <<index, metadata, dimension, index_file, metadata_file,
                   embedding_model, faults, indexed, remover, searcher, episode>>

\* update_document(processing_status=PROCESSING)
ProcessBegin ==
    /\ adder.pc = "scheduled"
    /\ adder' = [adder EXCEPT !.pc = "extract", !.processing_status = "processing"]
    /\ UNCHANGED <<index, metadata, dimension, index_file, metadata_file,
                   embedding_model, last, faults, indexed, remover, searcher, episode>>

\* extract_text, then update_document(extracted_text, COMPLETED); an
\* exception leads to the except branch: update_document(FAILED)
ProcessExtract(extract_ok) ==
    /\ adder.pc = "extract"
    /\ adder' = IF extract_ok
                THEN [adder EXCEPT !.pc = "index", !.processing_status = "completed"]
                ELSE [adder EXCEPT !.pc = "finished", !.raised = TRUE,
                                   !.processing_status = "failed"]
    /\ UNCHANGED <<index, metadata, dimension, index_file, metadata_file,
                   embedding_model, last, faults, indexed, remover, searcher, episode>>

\* add_document_to_index; an exception leads to update_document(FAILED)
ProcessIndex(emb_ok, io) ==
    /\ adder.pc = "index"
    /\ ntotal(index) + Len(ChunkTable[adder.text]) <= MaxVectors
    /\ CountFault(emb_ok, io)
    /\ LET r == add_document_to_index(Snapshot, embedding_model, adder.document_id,
                                      adder.text, adder.title, emb_ok, io)
       IN  /\ Install(r.s)
           /\ last' = [op |-> "add",
                       arg |-> [document_id |-> adder.document_id, text |-> adder.text,
                                title |-> adder.title, emb_ok |-> emb_ok, io |-> io],
                       ret |-> r.ret, raised |-> r.raised, n_before |-> ntotal(index),
                       d_before |-> CountOf(metadata, adder.document_id)]
           /\ indexed' = IF r.raised THEN indexed
                          ELSE [indexed EXCEPT ![adder.document_id] = @ + Len(r.ret)]
           /\ adder' = IF r.raised
                       THEN [adder EXCEPT !.pc = "finished", !.raised = TRUE,
                                          !.processing_status = "failed"]
                       ELSE [adder EXCEPT !.pc = "finished", !.ret = r.ret]
    /\ UNCHANGED <<embedding_model, remover, searcher, episode>>

NextProcess ==
    \/ \E t \in Texts, title \in Titles : ProcessDocument(t, title)
    \/ ProcessBegin
    \/ \E extract_ok \in BOOLEAN : ProcessExtract(extract_ok)
    \/ \E io \in SaveOutcomes : ProcessIndex(TRUE, io)
    \/ ProcessIndex(FALSE, "ok")

SpecProcess == Init /\ [][NextProcess]_vars

(***************************************************************************)
(* Searches of a manager that was started on the files of a stopped add    *)
(* (SpecOrphan).  A process that stops between the two writes of           *)
(* _save_index leaves an index file that is ahead of metadata.pkl; the     *)
(* next process loads both, and its index then returns ids the metadata    *)
(* map does not hold.                                                      *)
(***************************************************************************)
NextOrphan ==
    \/ \E d \in DocIds, t \in Texts, title \in Titles :
          AddDocument(d, t, title, TRUE, "ok")
    \/ \E d \in DocIds, t \in Texts, title \in Titles, point \in SavePoints :
          StartupInAdd(d, t, title, point)
    \/ \E q \in Queries, k \in 1..MaxTopK, f \in Filters : Search(q, k, f)

SpecOrphan == Init /\ [][NextOrphan]_vars

(***************************************************************************)
(* Calls that overlap (SpecConc, SpecRead).  process_document is a         *)
(* coroutine and runs add_document_to_index on the event loop;             *)
(* delete_document, rebuild_index and search_documents are plain functions *)
(* and run on threads of the pool.  The manager takes no lock, so the      *)
(* statements of the calls interleave.  A step below is one statement (or  *)
(* one loop iteration) of indexer.py on the fields as they are at that     *)
(* moment; the loops of rebuild_index and the two writes of _save_index    *)
(* are taken in one step each.  SpecConc overlaps an add with a remove or  *)
(* a rebuild; SpecRead overlaps a search, given no document filter, with   *)
(* one of the three.  Calls made before the overlap run one at a time.     *)
(***************************************************************************)
MaxEpisodes == 1     \* how many times calls are started that overlap

Quiet == adder.pc = "idle" /\ remover.pc = "idle" /\ searcher.pc = "idle"

manager == <<index, metadata, dimension, index_file, metadata_file>>
history == <<embedding_model, last, faults, indexed>>

\* process_document, a request handler or both are started on the same
\* manager; `last` describes calls that run alone and is cleared
Overlapping == [op |-> "overlap", arg |-> <<>>, ret |-> <<>>, raised |-> FALSE,
                n_before |-> 0, d_before |-> 0]

Fork(document_id, text, title, with_add, op) ==
    /\ Quiet
    /\ episode.count < MaxEpisodes
    /\ with_add \/ op # "none"
    /\ with_add => ntotal(index) + Len(ChunkTable[text]) <= MaxVectors
    /\ adder' = IF with_add
                THEN [IdleAdder EXCEPT !.pc = "begin", !.document_id = document_id,
                                       !.text = text, !.title = title]
                ELSE IdleAdder
    /\ remover' = IF op = "none" THEN IdleRemover
                  ELSE [IdleRemover EXCEPT !.pc = "check", !.op = op,
                           !.document_id = IF op = "remove" THEN document_id ELSE 0]
    /\ episode' = [count |-> episode.count + 1, active |-> TRUE, start |-> Snapshot]
    /\ last' = Overlapping
    /\ UNCHANGED <<manager, embedding_model, faults, indexed, searcher>>

\* ---- add_document_to_index on the event loop ----
\* lines 100-109: chunk_text, _create_embeddings
AddBegin ==
    /\ adder.pc = "begin"
    /\ adder' = IF ChunkTable[adder.text] = <<>>
                THEN [adder EXCEPT !.pc = "done", !.ret = <<>>]
                ELSE [adder EXCEPT !.pc = "create"]
    /\ UNCHANGED <<manager, history, remover, searcher, episode>>

\* lines 112-115: if self.index is None
AddCreate ==
    /\ adder.pc = "create"
    /\ LET embeddings == create_embeddings(embedding_model, ChunkTable[adder.text])
       IN  IF index.none
           THEN /\ dimension' = Len(embeddings[1])
                /\ index' = IndexFlatIP(Len(embeddings[1]))
           ELSE UNCHANGED <<index, dimension>>
    /\ adder' = [adder EXCEPT !.pc = "ntotal"]
    /\ UNCHANGED <<metadata, index_file, metadata_file, history, remover, searcher, episode>>

\* line 119: start_vector_id = self.index.ntotal
AddNtotal ==
    /\ adder.pc = "ntotal"
    /\ adder' = [adder EXCEPT !.pc = "add", !.start_vector_id = ntotal(index)]
    /\ UNCHANGED <<manager, history, remover, searcher, episode>>

\* line 122: self.index.add(embeddings)
AddVectors ==
    /\ adder.pc = "add"
    /\ LET embeddings == create_embeddings(embedding_model, ChunkTable[adder.text])
       IN  IF IndexAddOk(index, embeddings)
           THEN /\ index' = IndexAdd(index, embeddings)
                /\ adder' = [adder EXCEPT !.pc = "meta", !.i = 0]
           ELSE /\ adder' = [adder EXCEPT !.pc = "done", !.raised = TRUE]
                /\ UNCHANGED index
    /\ UNCHANGED <<metadata, dimension, index_file, metadata_file, history, remover,
                   searcher, episode>>

\* lines 126-136: one iteration of the loop over the chunks
AddMeta ==
    /\ adder.pc = "meta"
    /\ LET text_chunks == ChunkTable[adder.text]
           vector_id == adder.start_vector_id + adder.i
           rec == MetaRec(adder.document_id, adder.i, text_chunks[adder.i + 1], adder.title)
       IN  /\ metadata' = (vector_id :> rec) @@ metadata
           /\ adder' = [adder EXCEPT !.i = @ + 1,
                                     !.ret = Append(@, vector_id),
                                     !.pc = IF adder.i + 1 = Len(text_chunks)
                                            THEN "save" ELSE "meta"]
    /\ UNCHANGED <<index, dimension, index_file, metadata_file, history, remover,
                   searcher, episode>>

\* lines 139-142: _save_index, return vector_ids
AddSave ==
    /\ adder.pc = "save"
    /\ Install(save_index(Snapshot, "ok").s)
    /\ adder' = [adder EXCEPT !.pc = "done"]
    /\ UNCHANGED <<history, remover, searcher, episode>>

\* ---- remove_document_from_index / rebuild_index on a pool thread ----
\* line 217 and the iterator of line 226; line 285
RemCheck ==
    /\ remover.pc = "check"
    /\ remover' =
         IF remover.op = "remove"
         THEN IF index.none THEN [remover EXCEPT !.pc = "done", !.ret = FALSE]
              ELSE [remover EXCEPT !.pc = "iter", !.keys = MetaItems(metadata),
                                   !.size = Cardinality(DOMAIN metadata), !.i = 1]
         ELSE IF DOMAIN metadata = {} THEN [remover EXCEPT !.pc = "done", !.ret = TRUE]
              ELSE [remover EXCEPT !.pc = "collect"]
    /\ UNCHANGED <<manager, history, adder, searcher, episode>>

\* lines 226-232: the iterator's next() and one iteration of the loop.  A
\* dict iterator raises RuntimeError when the dict has changed size since
\* the iterator was made; the except branch returns False.
RemIter ==
    /\ remover.pc = "iter"
    /\ remover' =
         IF Cardinality(DOMAIN metadata) # remover.size
         THEN [remover EXCEPT !.pc = "done", !.ret = FALSE]
         ELSE IF remover.i > Len(remover.keys) THEN [remover EXCEPT !.pc = "swap"]
         ELSE LET vector_id == remover.keys[remover.i]
              IN  IF metadata[vector_id].document_id = remover.document_id
                  THEN [remover EXCEPT !.i = @ + 1]
                  ELSE IF ~ReconstructOk(index, vector_id)
                  THEN [remover EXCEPT !.pc = "done", !.ret = FALSE]
                  ELSE [remover EXCEPT !.i = @ + 1,
                           !.keep_vectors = Append(@, Reconstruct(index, vector_id)),
                           !.keep_metadata = Append(@, metadata[vector_id])]
    /\ UNCHANGED <<manager, history, adder, searcher, episode>>

\* lines 291-318: the loops of rebuild_index
RebCollect ==
    /\ remover.pc = "collect"
    /\ LET order == RebuildOrder(metadata)
           old_ids == [i \in 1..Len(order) |-> OldVectorId(metadata, metadata[order[i]])]
       IN  remover' =
             IF \E i \in 1..Len(old_ids) : ~ReconstructOk(index, old_ids[i])
             THEN [remover EXCEPT !.pc = "done", !.ret = FALSE]
             ELSE IF order = <<>> THEN [remover EXCEPT !.pc = "done", !.ret = FALSE]
             ELSE [remover EXCEPT !.pc = "swap",
                      !.keep_vectors = Reconstructed(index, old_ids),
                      !.keep_metadata = [i \in 1..Len(order) |-> metadata[order[i]]]]
    /\ UNCHANGED <<manager, history, adder, searcher, episode>>

\* lines 236, 241, 323: self.index = faiss.IndexFlatIP(self.dimension)
RemSwap ==
    /\ remover.pc = "swap"
    /\ index' = IndexFlatIP(dimension)
    /\ remover' = [remover EXCEPT !.pc = IF remover.keep_vectors = <<>>
                                        THEN "clear" ELSE "fill"]
    /\ UNCHANGED <<metadata, dimension, index_file, metadata_file, history, adder,
                   searcher, episode>>

\* line 237: self.metadata = {}
RemClear ==
    /\ remover.pc = "clear"
    /\ metadata' = EmptyMeta
    /\ remover' = [remover EXCEPT !.pc = "save"]
    /\ UNCHANGED <<index, dimension, index_file, metadata_file, history, adder,
                   searcher, episode>>

\* lines 242, 324: self.index.add(...)
RemFill ==
    /\ remover.pc = "fill"
    /\ IF IndexAddOk(index, remover.keep_vectors)
       THEN /\ index' = IndexAdd(index, remover.keep_vectors)
            /\ remover' = [remover EXCEPT !.pc = "publish"]
       ELSE /\ remover' = [remover EXCEPT !.pc = "done", !.ret = FALSE]
            /\ UNCHANGED index
    /\ UNCHANGED <<metadata, dimension, index_file, metadata_file, history, adder,
                   searcher, episode>>

\* lines 243, 325: self.metadata = keep_metadata / new_metadata
RemPublish ==
    /\ remover.pc = "publish"
    /\ metadata' = [id \in 0..(Len(remover.keep_metadata) - 1) |->
                      remover.keep_metadata[id + 1]]
    /\ remover' = [remover EXCEPT !.pc = "save"]
    /\ UNCHANGED <<index, dimension, index_file, metadata_file, history, adder,
                   searcher, episode>>

\* lines 245-248, 327-330: _save_index, return True
RemSave ==
    /\ remover.pc = "save"
    /\ Install(save_index(Snapshot, "ok").s)
    /\ remover' = [remover EXCEPT !.pc = "done", !.ret = TRUE]
    /\ UNCHANGED <<history, adder, searcher, episode>>

\* ---- search_similar_chunks on a pool thread ----
StartSearch(query_text, top_k, document_ids) ==
    /\ searcher.pc = "idle"
    /\ episode.active
    /\ searcher' = [IdleSearcher EXCEPT !.pc = "check", !.query_text = query_text,
                                        !.top_k = top_k, !.document_ids = document_ids]
    /\ UNCHANGED <<manager, history, adder, remover, episode>>

\* line 165
SearchCheck ==
    /\ searcher.pc = "check"
    /\ searcher' = IF index.none \/ ntotal(index) = 0
                   THEN [searcher EXCEPT !.pc = "done", !.ret = <<>>]
                   ELSE [searcher EXCEPT !.pc = "search"]
    /\ UNCHANGED <<manager, history, adder, remover, episode>>

\* lines 171-174: the query embedding and self.index.search
SearchIndex ==
    /\ searcher.pc = "search"
    /\ LET q == EmbedText(embedding_model, searcher.query_text)
       IN  IF Len(q) # index.d
           THEN searcher' = [searcher EXCEPT !.pc = "done", !.raised = TRUE]
           ELSE \E cand \in IndexSearch(index, q, searcher.top_k * 2) :
                   searcher' = [searcher EXCEPT
                                  !.pc = "lookup", !.i = 1, !.indices = cand,
                                  !.scores = [i \in 1..Len(cand) |->
                                                Dot(q, index.xb[cand[i] + 1])]]
    /\ UNCHANGED <<manager, history, adder, remover, episode>>

\* lines 177-199: one iteration of the loop over the candidates
SearchLookup ==
    /\ searcher.pc = "lookup"
    /\ searcher' =
         IF searcher.i > Len(searcher.indices) THEN [searcher EXCEPT !.pc = "sort"]
         ELSE LET result == ResultOf(metadata, searcher.indices[searcher.i],
                                     searcher.scores[searcher.i])
              IN  IF Truthy(searcher.document_ids)
                     /\ result.document_id \notin searcher.document_ids.ids
                  THEN [searcher EXCEPT !.i = @ + 1]
                  ELSE [searcher EXCEPT !.i = @ + 1,
                           !.results = Append(@, result),
                           !.pc = IF Len(searcher.results) + 1 >= searcher.top_k
                                  THEN "sort" ELSE "lookup"]
    /\ UNCHANGED <<manager, history, adder, remover, episode>>

\* lines 202-205: results.sort, return results
SearchSort ==
    /\ searcher.pc = "sort"
    /\ searcher' = [searcher EXCEPT
                      !.pc = "done",
                      !.ret = Items(SortDesc([i \in 1..Len(searcher.results) |->
                                 <<searcher.results[i].score, searcher.results[i]>>]))]
    /\ UNCHANGED <<manager, history, adder, remover, episode>>

\* the handler has answered the request
SearchReturn ==
    /\ searcher.pc = "done"
    /\ searcher' = IdleSearcher
    /\ UNCHANGED <<manager, history, adder, remover, episode>>

\* the calls that were started have returned
Finish ==
    /\ episode.active
    /\ adder.pc \in {"idle", "done"}
    /\ remover.pc \in {"idle", "done"}
    /\ searcher.pc = "idle"
    /\ adder' = IdleAdder
    /\ remover' = IdleRemover
    /\ episode' = [episode EXCEPT !.active = FALSE]
    /\ UNCHANGED <<manager, history, searcher>>

\* the calls made before the overlap
Before(document_id, text, title) ==
    /\ Quiet
    /\ episode.count = 0
    /\ AddDocument(document_id, text, title, TRUE, "ok")

NextConc ==
    \/ \E d \in DocIds, t \in Texts, title \in Titles : Before(d, t, title)
    \/ \E d \in DocIds, t \in Texts, title \in Titles, op \in {"remove", "rebuild"} :
          Fork(d, t, title, TRUE, op)
    \/ AddBegin \/ AddCreate \/ AddNtotal \/ AddVectors \/ AddMeta \/ AddSave
    \/ RemCheck \/ RemIter \/ RebCollect \/ RemSwap \/ RemClear \/ RemFill
    \/ RemPublish \/ RemSave
    \/ Finish

SpecConc == Init /\ [][NextConc]_vars

NextRead ==
    \/ \E d \in DocIds, t \in Texts, title \in Titles : Before(d, t, title)
    \/ \E d \in DocIds, t \in Texts, title \in Titles : Fork(d, t, title, TRUE, "none")
    \/ \E d \in DocIds, op \in {"remove", "rebuild"} : Fork(d, "", "", FALSE, op)
    \/ AddBegin \/ AddCreate \/ AddNtotal \/ AddVectors \/ AddMeta \/ AddSave
    \/ RemCheck \/ RemIter \/ RebCollect \/ RemSwap \/ RemClear \/ RemFill
    \/ RemPublish \/ RemSave
    \/ \E q \in Queries, k \in 1..MaxTopK : StartSearch(q, k, NoFilter)
    \/ SearchCheck \/ SearchIndex \/ SearchLookup \/ SearchSort \/ SearchReturn
    \/ Finish

SpecRead == Init /\ [][NextRead]_vars

\* the two calls of the episode run one after the other on manager s
AddCall(s) ==
    add_document_to_index(s, embedding_model, adder.document_id, adder.text,
                          adder.title, TRUE, "ok")
OtherCall(s) ==
    IF remover.op = "remove" THEN remove_document_from_index(s, remover.document_id, "ok")
    ELSE rebuild_index(s, "ok")

\* the managers that exist between the calls of the episode when they run in
\* some serial order
Generations ==
    LET A(s) == IF adder.pc = "idle" THEN s ELSE AddCall(s).s
        B(s) == IF remover.pc = "idle" THEN s ELSE OtherCall(s).s
    IN  {episode.start, A(episode.start), B(episode.start),
         B(A(episode.start)), A(B(episode.start))}

(***************************************************************************)
(* Properties.                                                             *)
(***************************************************************************)
Keys(md) == DOMAIN md
IdRange(ix) == 0..(ntotal(ix) - 1)

\* every result any search can return in manager state s
AllSearchResults(s, m) ==
    UNION {{r.ret[i] : i \in 1..Len(r.ret)} :
             r \in UNION {search_similar_chunks(s, m, q, k, f) :
                            q \in Queries, k \in 1..MaxTopK, f \in Filters}}

\* C1: after every completed add, remove or rebuild, failed or not, the keys of
\* the metadata map are exactly 0 .. index.ntotal - 1.
ParallelStores == Keys(metadata) = IdRange(index)

\* C1 witness: a remove whose save failed left a non-empty, renumbered store
ParallelStoresWitness ==
    /\ last.op = "remove" /\ ~last.ret /\ last.arg.io # "ok"
    /\ ntotal(index) > 0 /\ ntotal(index) < last.n_before

\* C2: when remove_document(d) has returned, no record of d remains, so no
\* search returns one, and total_vectors is smaller than before the call by
\* exactly the number of records d had.
RemoveRemovesAll ==
    last.op = "remove" =>
        LET d == last.arg.document_id
        IN  /\ CountOf(metadata, d) = 0
            /\ \A r \in AllSearchResults(Snapshot, embedding_model) : r.document_id # d
            /\ get_index_stats(Snapshot).total_vectors = last.n_before - last.d_before

\* C2 witness: a remove took some records and left others
RemoveRemovesAllWitness ==
    /\ last.op = "remove" /\ last.ret
    /\ last.d_before >= 2 /\ ntotal(index) > 0

\* C3: a successful add of a text with K >= 1 fragments on an index of size N
\* returns N .. N+K-1 in order and stores, at N+i, the document id, chunk index
\* i, the i-th fragment and its length; on a fresh manager a one-fragment text
\* gets the id 0.
AddAssignsIds ==
    (last.op = "add" /\ ~last.raised /\ ChunkTable[last.arg.text] # <<>>) =>
        LET N == last.n_before
            fragments == ChunkTable[last.arg.text]
            K == Len(fragments)
        IN  /\ last.ret = [i \in 1..K |-> N + i - 1]
            /\ \A i \in 0..(K - 1) :
                  /\ N + i \in DOMAIN metadata
                  /\ metadata[N + i].document_id = last.arg.document_id
                  /\ metadata[N + i].chunk_index = i
                  /\ metadata[N + i].text = fragments[i + 1]
                  /\ metadata[N + i].chunk_length = Len(fragments[i + 1])
            /\ (N = 0 /\ K = 1) => last.ret = <<0>>

\* C3 witness: several fragments appended to a non-empty index
AddAssignsIdsWitness ==
    /\ last.op = "add" /\ ~last.raised
    /\ Len(last.ret) >= 2 /\ last.ret[1] > 0 /\ last.n_before = last.ret[1]

\* C5 (as claimed): an add whose save fails leaves the in-memory index and
\* metadata as they were before the call.
AddSaveFailureRollsBack ==
    [][(last'.op = "add" /\ last'.raised /\ last'.arg.emb_ok /\ last'.arg.io # "ok") =>
          (index' = index /\ metadata' = metadata)]_vars

\* C4: after successful calls only, stats reports as total_vectors the sum of
\* the fragment counts of the documents added and not since removed, and as
\* documents_count the number of distinct documents that have records.
RECURSIVE SumOver(_, _)
SumOver(f, S) == IF S = {} THEN 0
                 ELSE LET x == CHOOSE y \in S : TRUE IN f[x] + SumOver(f, S \ {x})

StatsCountsFragments ==
    (last.op = "stats" /\ faults = 0) =>
        /\ last.ret.total_vectors = SumOver(indexed, DocIds)
        /\ last.ret.documents_count = Cardinality({d \in DocIds : indexed[d] > 0})
        /\ last.ret.documents_count
             = Cardinality({metadata[id].document_id : id \in DOMAIN metadata})

\* C4 witness: stats of an index that holds two documents, one with several fragments
StatsCountsFragmentsWitness ==
    /\ last.op = "stats" /\ faults = 0
    /\ last.ret.documents_count = 2 /\ last.ret.total_vectors >= 3

\* C9 (as claimed): a search given a document filter S, any list other than
\* None, returns no result whose document_id is outside S.
FilterRespected ==
    (last.op = "search" /\ ~last.arg.document_ids.none) =>
        \A i \in 1..Len(last.ret) : last.ret[i].document_id \in last.arg.document_ids.ids

\* C10 (as claimed): a search returns at most k results in non-increasing score
\* order, and they are the k best-scoring records (all of them if fewer) among
\* those of the first 2k candidates that pass the document filter.
PassesFilter(document_ids, document_id) ==
    document_ids.none \/ document_id \in document_ids.ids

TopKOfPassing ==
    (last.op = "search" /\ ~last.raised) =>
        LET k == last.arg.top_k
            cand == last.arg.cand
            passing == {i \in 1..Len(cand) :
                          /\ cand[i] \in DOMAIN metadata
                          /\ PassesFilter(last.arg.document_ids,
                                          metadata[cand[i]].document_id)}
            returned == {last.ret[i].vector_id : i \in 1..Len(last.ret)}
        IN  /\ Len(last.ret) <= k
            /\ \A i, j \in 1..Len(last.ret) :
                  i < j => last.ret[i].score >= last.ret[j].score
            /\ Cardinality(returned) = Len(last.ret)
            /\ returned \subseteq {cand[i] : i \in passing}
            /\ Len(last.ret) = Min2(k, Cardinality(passing))
            /\ \A i \in passing : cand[i] \notin returned =>
                  \A j \in 1..Len(last.ret) :
                     Dot(EmbedText(embedding_model, last.arg.query_text),
                         index.xb[cand[i] + 1]) <= last.ret[j].score

\* C6 (as claimed): a manager constructed after the process stopped inside an
\* add, remove or rebuild holds the complete state from before the call or the
\* complete state after it, and its metadata keys are 0 .. index size - 1.
CrashConsistent ==
    last.op = "crash" =>
        /\ Pair(Snapshot) \in {last.arg.before, last.arg.after}
        /\ Keys(metadata) = IdRange(index)

\* C7 (as claimed): a search that overlaps an add, a remove or a rebuild reads
\* an index and a metadata map of one generation, so what it returns is what
\* the search returns on the manager as it is before, between or after the
\* overlapping calls taken in some serial order.
SearchReadsOneGeneration ==
    searcher.pc = "done" =>
        \E g \in Generations :
           \E r \in search_similar_chunks(g, embedding_model, searcher.query_text,
                                          searcher.top_k, searcher.document_ids) :
              r.ret = searcher.ret /\ r.raised = searcher.raised

\* C8 (as claimed): when an add has overlapped a remove or a rebuild, the index
\* and the metadata map are those of one of the two serial orders of the calls,
\* with the results the calls have in that order; the metadata keys are
\* 0 .. index size - 1.
MutationsSerialized ==
    (adder.pc = "done" /\ remover.pc = "done") =>
        /\ \/ LET a == AddCall(episode.start)
                   b == OtherCall(a.s)
               IN  /\ Pair(Snapshot) = Pair(b.s)
                   /\ adder.ret = a.ret /\ adder.raised = a.raised
                   /\ remover.ret = b.ret
           \/ LET b == OtherCall(episode.start)
                   a == AddCall(b.s)
               IN  /\ Pair(Snapshot) = Pair(a.s)
                   /\ adder.ret = a.ret /\ adder.raised = a.raised
                   /\ remover.ret = b.ret
        /\ Keys(metadata) = IdRange(index)

\* C11: while a fragment is stored (its document was added and not removed,
\* whatever adds, removals of other documents and rebuilds followed), a search
\* without document filter whose query is the fragment's text returns at rank
\* 0 a record with that text and the maximal score, the score of a vector with
\* itself; when the text is stored once, that record is the stored one.
StoredAs(text) == {id \in DOMAIN metadata : metadata[id].text = text}

SearchFindsStoredFragment ==
    (/\ last.op = "search"
     /\ last.arg.document_ids.none
     /\ StoredAs(last.arg.query_text) # {}) =>
        LET q == EmbedText(embedding_model, last.arg.query_text)
        IN  /\ ~last.raised
            /\ Len(last.ret) >= 1
            /\ last.ret[1].text = last.arg.query_text
            /\ last.ret[1].score = Dot(q, q)
            /\ \A i \in 1..Len(last.ret) : last.ret[i].score <= last.ret[1].score
            /\ \A id \in StoredAs(last.arg.query_text) :
                  StoredAs(last.arg.query_text) = {id} =>
                     /\ last.ret[1].vector_id = id
                     /\ last.ret[1].document_id = metadata[id].document_id
                     /\ last.ret[1].chunk_index = metadata[id].chunk_index

\* C11 witness: the fragment is found behind two other stored vectors
SearchFindsStoredFragmentWitness ==
    /\ last.op = "search"
    /\ last.arg.document_ids.none
    /\ StoredAs(last.arg.query_text) # {}
    /\ ntotal(index) = 3
    /\ Len(last.ret) >= 1
    /\ last.ret[1].vector_id = 2

\* C12: while the index holds no vectors (never created, reset by a failed
\* load, or emptied by removing every document), a search returns the empty
\* list without raising and without calling the embedding model, and stats
\* reports total_vectors 0 without raising.
EmptyIndexAnswers ==
    (index.none \/ ntotal(index) = 0) =>
        /\ last.op = "search" =>
              last.ret = <<>> /\ ~last.raised /\ ~last.arg.encoded
        /\ last.op = "stats" => last.ret.total_vectors = 0 /\ ~last.raised

\* C12 witness: a search of an index that was emptied by removing every document
EmptyIndexAnswersWitness ==
    /\ last.op = "search"
    /\ ~index.none
    /\ ntotal(index) = 0

\* C13 (as claimed): after every successful add, remove or rebuild, a manager
\* constructed from the persisted files has the number of vectors, the
\* dimension and the metadata map that the manager in memory has when the
\* call returns.
Succeeded ==
    \/ last.op = "add" /\ ~last.raised
    \/ last.op \in {"remove", "rebuild"} /\ last.ret = TRUE

PersistenceRoundTrip ==
    Succeeded =>
        LET loaded == load_index(index_file, metadata_file)
        IN  /\ ntotal(loaded.index) = ntotal(index)
            /\ loaded.dimension = dimension
            /\ loaded.metadata = metadata

\* C14: after the constructor has run (_load_index), if one of the two files
\* is missing or cannot be read back, the manager has no index and an empty
\* metadata map; an index is held only together with the metadata map of the
\* metadata file, never one store loaded without the other.
StartupLoadsBothOrNone ==
    last.op = "startup" =>
        /\ (index_file.state # "ok" \/ metadata_file.state # "ok") =>
              index.none /\ metadata = EmptyMeta
        /\ index.none => metadata = EmptyMeta
        /\ ~index.none =>
              /\ index_file.state = "ok" /\ metadata_file.state = "ok"
              /\ index = index_file.data
              /\ metadata = metadata_file.data

\* C14 witness: the index file is readable and holds vectors, the metadata
\* file is not readable
StartupLoadsBothOrNoneWitness ==
    /\ last.op = "startup"
    /\ index_file.state = "ok"
    /\ ntotal(index_file.data) > 0
    /\ metadata_file.state = "corrupt"
    /\ index.none

\* C15: once an index exists, no add, remove (also of every record) or
\* rebuild changes its dimension or self.dimension; an add whose embeddings
\* have another dimension than the index raises and leaves the index, the
\* metadata map and the dimension as they were.
DimensionFixed ==
    [][(~index.none /\ last'.op \in {"add", "remove", "rebuild"}) =>
          /\ ~index'.none
          /\ index'.d = index.d
          /\ dimension' = dimension
          /\ (/\ last'.op = "add"
              /\ ChunkTable[last'.arg.text] # <<>>
              /\ ModelDim(embedding_model) # index.d) =>
                 /\ last'.raised
                 /\ index' = index
                 /\ metadata' = metadata]_vars

\* C15 witness: an add under a model of another dimension has raised on an
\* index that holds vectors
DimensionFixedWitness ==
    /\ last.op = "add"
    /\ last.raised
    /\ ~index.none
    /\ ntotal(index) > 0
    /\ ModelDim(embedding_model) # index.d


\* The chunk_index values of a document's records in ascending vector id order
ChunkIndexes(md, d) ==
    LET ids == SortedIds({k \in DOMAIN md : md[k].document_id = d})
    IN  [i \in 1..Len(ids) |-> md[ids[i]].chunk_index]

\* C16 (as claimed): in every reachable state, for each document id the
\* records listed in ascending vector id order carry the chunk indexes
\* 0, 1, ..., K-1.
ChunkIndexesContiguous ==
    \A d \in DocIds :
        LET cs == ChunkIndexes(metadata, d)
        IN  cs = [i \in 1..Len(cs) |-> i - 1]


\* The records of a document in ascending vector id order
DocRecords(md, d) ==
    LET ids == SortedIds({k \in DOMAIN md : md[k].document_id = d})
    IN  [i \in 1..Len(ids) |-> md[ids[i]]]

\* C17: a rebuild_index keeps the total vector count and, for each document,
\* the set of its records; a rebuild_index that directly follows a
\* rebuild_index also keeps each document's ordered list of records.
RebuildIdempotent ==
    [][last'.op = "rebuild" =>
          /\ ntotal(index') = ntotal(index)
          /\ Cardinality(DOMAIN metadata') = Cardinality(DOMAIN metadata)
          /\ \A d \in DocIds :
                {metadata'[k] : k \in {j \in DOMAIN metadata' : metadata'[j].document_id = d}}
                    = {metadata[k] : k \in {j \in DOMAIN metadata : metadata[j].document_id = d}}
          /\ last.op = "rebuild" =>
                \A d \in DocIds : DocRecords(metadata', d) = DocRecords(metadata, d)]_vars

\* C17 witness: a rebuild has run on records of two documents where one
\* document owns two records with the same chunk index, and another rebuild
\* would leave the records where they are
RebuildIdempotentWitness ==
    /\ last.op = "rebuild" /\ last.ret
    /\ \A d \in DocIds : CountOf(metadata, d) > 0
    /\ \E d \in DocIds : \E j, k \in DOMAIN metadata :
          /\ j < k
          /\ metadata[j].document_id = d /\ metadata[k].document_id = d
          /\ metadata[j].chunk_index = metadata[k].chunk_index
    /\ rebuild_index(Snapshot, "ok").s.metadata = metadata


\* C18 (as claimed): remove_document(d) returns True in every manager state,
\* a never-used manager included, whether or not d has records; when d has
\* none, the stored records are the same after the call.
RemoveAlwaysSucceeds ==
    [][last'.op = "remove" =>
          /\ last'.ret
          /\ CountOf(metadata, last'.arg.document_id) = 0 => metadata' = metadata
      ]_<<last.op, index, metadata>>


(***************************************************************************)
(* chunk_text on its own: the call's arguments are drawn from bounded sets *)
(* and one step applies the function.  A text is a sequence of pieces      *)
(* separated by dots; the pieces cover the empty piece, a blank piece, and *)
(* sentences of length 1, 2 (with blanks around it) and 3.                 *)
(***************************************************************************)
MaxSentences == 3
MaxSize == 3
MaxOverlap == 1

Pieces == {"", " ", "a", " bb ", "ccc"}

RECURSIVE TextOf(_)
TextOf(ps) == IF Len(ps) = 1 THEN ps[1] ELSE ps[1] \o "." \o TextOf(Tail(ps))

ChunkTexts == {TextOf(ps) : ps \in UNION {[1..n -> Pieces] : n \in 1..MaxSentences}}
ChunkSizes == 0..MaxSize         \* 0: chunk_size not given
Overlaps == (-1)..MaxOverlap     \* 0: overlap not given

InitChunk ==
    /\ index = NoIndex
    /\ metadata = EmptyMeta
    /\ dimension = 0
    /\ index_file = NoFile
    /\ metadata_file = NoFile
    /\ embedding_model = "m1"
    /\ \E text \in ChunkTexts, chunk_size \in ChunkSizes, overlap \in Overlaps :
          last = [op |-> "input",
                  arg |-> [text |-> text, chunk_size |-> chunk_size, overlap |-> overlap],
                  ret |-> <<>>, raised |-> FALSE, n_before |-> 0, d_before |-> 0]
    /\ faults = 0
    /\ indexed = [d \in DocIds |-> 0]
    /\ adder = IdleAdder
    /\ remover = IdleRemover
    /\ searcher = IdleSearcher
    /\ episode = NoEpisode

ChunkText ==
    /\ last.op = "input"
    /\ last' = [last EXCEPT !.op = "chunk_text",
                            !.ret = chunk_text(last.arg.text, last.arg.chunk_size,
                                               last.arg.overlap)]
    /\ UNCHANGED <<index, metadata, dimension, index_file, metadata_file,
                   embedding_model, faults, indexed, threads>>

NextChunk == ChunkText

SpecChunk == InitChunk /\ [][NextChunk]_vars

\* the sentences a reader finds in a string: its pieces between dots, trimmed,
\* without the empty ones
SentencesOf(str) ==
    LET pieces == SplitDot(str)
    IN  SelectSeq([i \in 1..Len(pieces) |-> Strip(pieces[i])], LAMBDA p : p # "")

\* chunk_size and overlap as chunk_text uses them
SizeUsed(chunk_size) == IF chunk_size # 0 THEN chunk_size ELSE MAX_CHUNK_SIZE
OverlapUsed(overlap) == IF overlap # 0 THEN overlap ELSE CHUNK_OVERLAP

\* C19 (as claimed): every fragment chunk_text returns is at most max_size
\* characters long, unless it is one single sentence longer than max_size.
FragmentsBounded ==
    last.op = "chunk_text" =>
        LET size == SizeUsed(last.arg.chunk_size)
        IN  \A i \in 1..Len(last.ret) :
               \/ Len(last.ret[i]) <= size
               \/ /\ Len(SentencesOf(last.ret[i])) = 1
                  /\ Len(SentencesOf(last.ret[i])[1]) > size


\* the sentences read off each fragment of the last chunk_text call
FragmentSentences == [i \in 1..Len(last.ret) |-> SentencesOf(last.ret[i])]

\* C20 (as claimed): the sentences read off the fragments, concatenated in
\* order, are the non-empty trimmed sentences of the input.
FragmentsReproduceInput ==
    last.op = "chunk_text" => Flatten(FragmentSentences) = SentencesOf(last.arg.text)

\* the number of sentences fragment i starts with that come from fragment i-1
SeedLength(i) ==
    LET ov == OverlapUsed(last.arg.overlap)
    IN  IF i > 1 /\ ov > 0 /\ Len(FragmentSentences[i - 1]) > 1
        THEN Min2(ov, Len(FragmentSentences[i - 1]))
        ELSE 0

\* C20 (amended): every fragment after the first starts with the last
\* sentences of the fragment before it, as many as the overlap asks for
\* (none when overlap < 0 or that fragment has one sentence); the sentences
\* that follow this seed, concatenated over the fragments in order, are the
\* non-empty trimmed sentences of the input.
FragmentsReproduceInputPastSeed ==
    last.op = "chunk_text" =>
        LET S == FragmentSentences
        IN  /\ \A i \in 1..Len(S) :
                  /\ SeedLength(i) < Len(S[i])
                  /\ \A j \in 1..SeedLength(i) :
                        S[i][j] = S[i - 1][Len(S[i - 1]) - SeedLength(i) + j]
            /\ Flatten([i \in 1..Len(S) |-> SubSeq(S[i], SeedLength(i) + 1, Len(S[i]))])
                  = SentencesOf(last.arg.text)

\* C20 witness: a call returned two fragments, the second seeded with the
\* last one of the first fragment's two different sentences
FragmentsReproduceInputPastSeedWitness ==
    /\ last.op = "chunk_text"
    /\ Len(last.ret) = 2
    /\ Len(FragmentSentences[1]) = 2 /\ SeedLength(2) = 1
    /\ FragmentSentences[1][1] # FragmentSentences[1][2]
    /\ Flatten(FragmentSentences) # SentencesOf(last.arg.text)


\* C21: find_similar_documents(d, top_k) returns no entry for d, at most
\* top_k entries, each for a different document, in non-increasing order of
\* avg_score, and the empty list when d has no records.
SimilarDocumentsRanked ==
    last.op = "find_similar_documents" =>
        LET docs == last.ret
            d == last.arg.document_id
        IN  /\ \A i \in 1..Len(docs) : docs[i].document_id # d
            /\ Len(docs) <= last.arg.top_k
            /\ \A i, j \in 1..Len(docs) :
                  i < j => /\ docs[i].document_id # docs[j].document_id
                           /\ docs[i].avg_score >= docs[j].avg_score
            /\ CountOf(metadata, d) = 0 => docs = <<>>

\* C21 witness: the index holds the document and two other documents whose
\* averages differ, and the call returned both of them
SimilarDocumentsRankedWitness ==
    /\ last.op = "find_similar_documents"
    /\ CountOf(metadata, last.arg.document_id) > 0
    /\ Len(last.ret) = 2
    /\ last.ret[1].avg_score > last.ret[2].avg_score

\* a result of find_relevant_context without its relevance_reason
Chunk(result) ==
    [vector_id |-> result.vector_id, score |-> result.score,
     document_id |-> result.document_id, chunk_index |-> result.chunk_index,
     text |-> result.text, document_title |-> result.document_title,
     chunk_length |-> result.chunk_length]

\* C22: find_relevant_context returns at most max_chunks results, each with
\* a score above 0.3, in non-increasing order of score; they are results of
\* the search for (question, 2 * max_chunks, document_ids), as many of those
\* above 0.3 as max_chunks allows, and none left out scores higher than one
\* returned; each carries a relevance_reason.
RelevantContextBest ==
    last.op = "find_relevant_context" =>
        LET ret == last.ret
            found == last.arg.similar_chunks
            good == {i \in 1..Len(found) : 10 * found[i].score > 3 * ScoreOne}
            taken == {i \in 1..Len(found) : \E j \in 1..Len(ret) : Chunk(ret[j]) = found[i]}
        IN  /\ Len(ret) <= last.arg.max_chunks
            /\ \A j \in 1..Len(ret) :
                  /\ 10 * ret[j].score > 3 * ScoreOne
                  /\ ret[j].relevance_reason \in {"keywords", "semantic"}
                  /\ \E i \in 1..Len(found) : Chunk(ret[j]) = found[i]
            /\ \A j, k \in 1..Len(ret) : j < k => ret[j].score >= ret[k].score
            /\ Len(ret) = Min2(last.arg.max_chunks, Cardinality(good))
            /\ \A i \in good \ taken : \A j \in 1..Len(ret) : found[i].score <= ret[j].score

\* C22 witness: the search found a result at or below 0.3, which is not
\* returned, and two above it, which are
RelevantContextBestWitness ==
    /\ last.op = "find_relevant_context"
    /\ Len(last.ret) = 2
    /\ Len(last.arg.similar_chunks) > 2
    /\ \E i \in 1..Len(last.arg.similar_chunks) :
          10 * last.arg.similar_chunks[i].score <= 3 * ScoreOne

\* the texts of a document's records in chunk_index order
TextsInOrder(md, d) ==
    LET recs == DocRecords(md, d)
        ids == Items(SortAsc([i \in 1..Len(recs) |-> <<recs[i].chunk_index, i>>]))
    IN  [i \in 1..Len(ids) |-> recs[ids[i]].text]

\* C23 (as claimed): document_context(d, max_chunks) returns all fragment
\* texts of d in chunk_index order when d has at most max_chunks of them;
\* when it has count > max_chunks >= 1, it returns the max_chunks fragments at
\* the positions 0, s, 2s, ... with s = count // max_chunks, and for
\* max_chunks >= 2 these are not the leading max_chunks fragments.
ContextSpreadsOverDocument ==
    (last.op = "get_document_summary_context" /\ last.arg.max_chunks >= 1) =>
        LET all == TextsInOrder(metadata, last.arg.document_id)
            count == Len(all)
            max_chunks == last.arg.max_chunks
            s == count \div max_chunks
        IN  IF count <= max_chunks THEN last.ret = all
            ELSE /\ last.ret = [k \in 1..max_chunks |-> all[(k - 1) * s + 1]]
                 /\ max_chunks >= 2 => last.ret # SubSeq(all, 1, max_chunks)


\* C24 (as claimed): a search with an empty query text ends in a validation
\* error in every index state, and the empty text reaches neither the
\* embedding model nor the index; this is asked of the search route and of
\* search_similar_chunks itself.
EmptyQueryRejected ==
    (last.op \in {"search", "search_documents"} /\ last.arg.query_text = "") =>
        /\ last.raised
        /\ ~last.arg.encoded
        /\ last.op = "search_documents" => last.ret.status = 400


\* C25 (as claimed): when the write of the newly built pair fails in
\* remove_document or rebuild_index, the call reports failure and the active
\* index and metadata are still the pair from before the call.  (A remove
\* without an index and a rebuild without records return before they write.)
CompactionPersistsBeforeSwap ==
    [][(/\ last'.op \in {"remove", "rebuild"}
        /\ last'.arg.io # "ok"
        /\ last'.op = "remove" => ~index.none
        /\ last'.op = "rebuild" => DOMAIN metadata # {}) =>
          /\ ~last'.ret
          /\ index' = index
          /\ metadata' = metadata
      ]_<<last.op, index, metadata>>

\* how many ids hold the record rec together with the vector vec
Holders(ix, md, rec, vec) ==
    Cardinality({id \in DOMAIN md : md[id] = rec /\ ReconstructOk(ix, id)
                                                 /\ Reconstruct(ix, id) = vec})

\* C26 (as claimed): a rebuild_index moves every record together with its
\* own vector, also when several records have equal metadata: each pair of
\* a record and a vector has as many holders after the rebuild as before,
\* and the number of vectors is the number of records before.
RebuildKeepsVectors ==
    [][(last'.op = "rebuild" /\ DOMAIN metadata # {}) =>
          /\ ntotal(index') = Cardinality(DOMAIN metadata)
          /\ \A id \in DOMAIN metadata :
                Holders(index', metadata', metadata[id], Reconstruct(index, id))
                    = Holders(index, metadata, metadata[id], Reconstruct(index, id))
      ]_<<last.op, index, metadata>>


\* C27: remove_document(d) keeps every record of another document with its
\* metadata and its vector, in the same relative order, renumbered
\* 0 .. M-1 without gaps.
RemoveKeepsOthers ==
    [][(last'.op = "remove" /\ ~index.none) =>
          LET d == last'.arg.document_id
              keep == SortedIds({id \in DOMAIN metadata : metadata[id].document_id # d})
              M == Len(keep)
          IN  /\ DOMAIN metadata' = 0..(M - 1)
              /\ ntotal(index') = M
              /\ \A k \in 1..M :
                    /\ metadata'[k - 1] = metadata[keep[k]]
                    /\ index'.xb[k] = index.xb[keep[k] + 1]
      ]_<<last.op, index, metadata>>

\* C27 witness: a remove took one record and left two records with
\* different vectors, which moved to the ids 0 and 1
RemoveKeepsOthersWitness ==
    /\ last.op = "remove" /\ last.ret
    /\ last.d_before = 1 /\ last.n_before = 3
    /\ ntotal(index) = 2 /\ index.xb[1] # index.xb[2]
    /\ DOMAIN metadata = {0, 1}


\* the number of sentences fragment i takes over from fragment i-1 when the
\* overlap argument is read as given: as many as the argument says, none
\* when it is 0 or negative or fragment i-1 has one sentence
SeedAsGiven(i) ==
    LET ov == last.arg.overlap
    IN  IF i > 1 /\ ov > 0 /\ Len(FragmentSentences[i - 1]) > 1
        THEN Min2(ov, Len(FragmentSentences[i - 1]))
        ELSE 0

\* C28 (as claimed): every fragment after the first begins with exactly the
\* last overlap_sentences sentences of the fragment closed before it (none
\* unless overlap_sentences > 0 and that fragment has more than one
\* sentence), followed by the next sentences of the input; with
\* overlap_sentences = 0 no fragment repeats a sentence of its predecessor.
OverlapSeedsNextFragment ==
    last.op = "chunk_text" =>
        LET S == FragmentSentences
        IN  /\ \A i \in 1..Len(S) :
                  /\ SeedAsGiven(i) < Len(S[i])
                  /\ \A j \in 1..SeedAsGiven(i) :
                        S[i][j] = LastN(S[i - 1], SeedAsGiven(i))[j]
            /\ Flatten([i \in 1..Len(S) |-> SubSeq(S[i], SeedAsGiven(i) + 1, Len(S[i]))])
                  = SentencesOf(last.arg.text)


\* the different elements of a sequence, in the order of their first occurrence
RECURSIVE FirstOccurrences(_)
FirstOccurrences(seq) ==
    IF seq = <<>> THEN <<>>
    ELSE LET front == FirstOccurrences(SubSeq(seq, 1, Len(seq) - 1))
             x == seq[Len(seq)]
         IN  IF \E j \in 1..Len(front) : front[j] = x THEN front ELSE Append(front, x)

\* C29: every non-empty trimmed sentence of the input is found whole in some
\* fragment, also when it is longer than max_size; the first occurrences of
\* the sentences in the fragments follow the input order; and the result is
\* the empty list exactly when the input has no non-empty sentence.
SentencesKeptWhole ==
    last.op = "chunk_text" =>
        LET sentences == SentencesOf(last.arg.text)
            found == Flatten(FragmentSentences)
        IN  /\ \A k \in 1..Len(sentences) :
                  \E i \in 1..Len(last.ret) : \E j \in 1..Len(FragmentSentences[i]) :
                      FragmentSentences[i][j] = sentences[k]
            /\ FirstOccurrences(found) = FirstOccurrences(sentences)
            /\ (last.ret = <<>>) <=> (sentences = <<>>)

\* C29 witness: a text with a sentence longer than the size limit came back
\* in several fragments, one of them seeded by an overlap
SentencesKeptWholeWitness ==
    /\ last.op = "chunk_text"
    /\ Len(last.ret) >= 2
    /\ \E k \in 1..Len(SentencesOf(last.arg.text)) :
          Len(SentencesOf(last.arg.text)[k]) > SizeUsed(last.arg.chunk_size)
    /\ \E i \in 1..Len(last.ret) : SeedLength(i) > 0


\* C30: an add of a text that yields no fragments returns the empty list
\* without raising and leaves the index, the dimension, the metadata map and
\* both files as they were, whether or not the embedding model or a file
\* write would have failed in that call: neither is reached.
EmptyAddChangesNothing ==
    [][(last'.op = "add" /\ ChunkTable[last'.arg.text] = <<>>) =>
          /\ last'.ret = <<>>
          /\ ~last'.raised
          /\ index' = index
          /\ dimension' = dimension
          /\ metadata' = metadata
          /\ index_file' = index_file
          /\ metadata_file' = metadata_file
      ]_vars

\* C30 witness: an add of a text without fragments returned on a manager
\* that holds records, in a call in which the embedding model was down
EmptyAddChangesNothingWitness ==
    /\ last.op = "add"
    /\ ChunkTable[last.arg.text] = <<>>
    /\ ~last.arg.emb_ok
    /\ ntotal(index) > 0
    /\ index_file.state = "ok"


\* C31: every result of a search, with or without a document filter, has a
\* vector id that is a key of the metadata map, and so a document_id and a
\* chunk_index that are not None.
ResultsHaveMetadata ==
    (last.op = "search" /\ ~last.raised) =>
        \A i \in 1..Len(last.ret) :
            /\ last.ret[i].vector_id \in DOMAIN metadata
            /\ last.ret[i].document_id # PyNone
            /\ last.ret[i].chunk_index # PyNone


\* C32: every entry find_similar_documents returns counts the hits of its
\* document among the chunks the search returned, max_score is the largest of
\* their scores and avg_score their arithmetic mean (so max_score >=
\* avg_score), in whatever order the hits arrived.
AggregatesExact ==
    (last.op = "find_similar_documents" /\ CountOf(metadata, last.arg.document_id) > 0) =>
        LET combined_text ==
                JoinSpace(FirstN(TargetChunks(metadata, last.arg.document_id), 5))
        IN  \E r \in search_similar_chunks(Snapshot, embedding_model, combined_text,
                                           last.arg.top_k * 5, NoFilter) :
               IF r.raised THEN last.ret = <<>>
               ELSE \A i \in 1..Len(last.ret) :
                       LET e == last.ret[i]
                           hits == {j \in 1..Len(r.ret) :
                                       r.ret[j].document_id = e.document_id}
                           score == [j \in 1..Len(r.ret) |-> r.ret[j].score]
                       IN  /\ hits # {}
                           /\ e.chunk_count = Cardinality(hits)
                           /\ e.max_score = SetMax({score[j] : j \in hits})
                           /\ e.avg_score * Cardinality(hits) = SumOver(score, hits) * AvgUnit
                           /\ e.max_score * AvgUnit >= e.avg_score

\* C32 witness: an entry was built from two hits with different scores
AggregatesExactWitness ==
    /\ last.op = "find_similar_documents"
    /\ \E i \in 1..Len(last.ret) :
          /\ last.ret[i].chunk_count = 2
          /\ last.ret[i].max_score * AvgUnit > last.ret[i].avg_score


\* the result of the last remove or rebuild (FALSE after any other call)
Reported == IF last.op \in {"remove", "rebuild"} THEN last.ret ELSE FALSE

\* C33: a rebuild of a manager whose metadata map is empty (never filled, or
\* emptied by removals) returns True and leaves index, metadata, dimension
\* and both files as they were, whatever a file write would have done.
RebuildEmptyChangesNothing ==
    [][(last'.op = "rebuild" /\ DOMAIN metadata = {}) =>
          /\ last'.ret = TRUE
          /\ index' = index
          /\ metadata' = metadata
          /\ dimension' = dimension
          /\ index_file' = index_file
          /\ metadata_file' = metadata_file
      ]_<<last.op, Reported, faults, index, metadata, dimension, index_file, metadata_file>>

\* C33 witness: a rebuild returned on a manager that removals had emptied
\* and whose files exist
RebuildEmptyChangesNothingWitness ==
    /\ last.op = "rebuild" /\ last.ret
    /\ DOMAIN metadata = {}
    /\ ~index.none /\ ntotal(index) = 0
    /\ index_file.state = "ok" /\ metadata_file.state = "ok"


\* C34: an add whose embedding call raises ends with the exception and
\* leaves index (not created if there was none), dimension, metadata and
\* both files as they were; the next add that stores fragments numbers them
\* from the size the index had before the failed call.
EmbeddingFailureHasNoEffect ==
    [][/\ (/\ last'.op = "add"
           /\ ~last'.arg.emb_ok
           /\ ChunkTable[last'.arg.text] # <<>>) =>
              /\ last'.raised
              /\ last'.ret = <<>>
              /\ index' = index
              /\ dimension' = dimension
              /\ metadata' = metadata
              /\ index_file' = index_file
              /\ metadata_file' = metadata_file
       /\ (/\ last.op = "add" /\ last.raised /\ ~last.arg.emb_ok
           /\ last'.op = "add" /\ ~last'.raised /\ last'.ret # <<>>) =>
              /\ last'.ret[1] = last.n_before
              /\ ntotal(index') = last.n_before + Len(last'.ret)
      ]_<<last.op, faults, index, metadata, dimension, index_file, metadata_file>>

\* C34 witness: the embedding call of an add raised on a manager that holds
\* a saved vector
EmbeddingFailureHasNoEffectWitness ==
    /\ last.op = "add" /\ last.raised
    /\ ~last.arg.emb_ok
    /\ ChunkTable[last.arg.text] # <<>>
    /\ ntotal(index) = 1
    /\ index_file.state = "ok" /\ metadata_file.state = "ok"


\* C35: a remove or rebuild that returns False leaves the index and the
\* metadata of the manager and both files exactly as they were before the
\* call.
ReportedFailureChangesNothing ==
    [][(last'.op \in {"remove", "rebuild"} /\ last'.ret = FALSE) =>
          /\ index' = index
          /\ metadata' = metadata
          /\ index_file' = index_file
          /\ metadata_file' = metadata_file
      ]_<<last.op, index, metadata, index_file, metadata_file>>


\* C36: after the delete route answered 200 for document d, the manager
\* holds no record of d, the metadata file holds none, and a manager
\* loaded from the files has no vector whose record belongs to d, also
\* when remove_document_from_index returned False or its save failed.
DeletedDocumentIsGone ==
    (last.op = "delete_document" /\ last.ret = 200) =>
        LET d == last.arg.document_id
            loaded == load_index(index_file, metadata_file)
        IN  /\ CountOf(metadata, d) = 0
            /\ metadata_file.state = "ok" => CountOf(metadata_file.data, d) = 0
            /\ \A id \in 0..(ntotal(loaded.index) - 1) :
                  id \in DOMAIN loaded.metadata => loaded.metadata[id].document_id # d


\* the fragments of the task's text are records of its document in the index
FragmentsIndexed ==
    LET text_chunks == ChunkTable[adder.text]
    IN  \A i \in 1..Len(text_chunks) :
           \E id \in DOMAIN metadata :
              /\ id < ntotal(index)
              /\ metadata[id].document_id = adder.document_id
              /\ metadata[id].text = text_chunks[i]

\* C37: the status of a document moves pending -> processing -> completed
\* or failed; whenever it is completed the fragments of the document are in
\* the index; and when add_document_to_index failed the status is failed
\* and the index holds no record of the document.
StatusFollowsIndex ==
    [][/\ adder'.processing_status # adder.processing_status =>
             <<adder.processing_status, adder'.processing_status>> \in
                {<<"pending", "processing">>, <<"processing", "completed">>,
                 <<"processing", "failed">>, <<"completed", "failed">>,
                 <<"completed", "pending">>, <<"failed", "pending">>}
       /\ adder'.processing_status = "completed" => FragmentsIndexed'
       /\ (adder'.pc = "finished" /\ last'.op = "add" /\ last'.raised) =>
             /\ adder'.processing_status = "failed"
             /\ CountOf(metadata', adder'.document_id) = 0
      ]_adder

====
